---- MODULE Spec2Model ----
(***************************************************************************)
(* Chat streaming and scheduled-task execution core of claudex.            *)
(*                                                                         *)
(* Stream part: one run of StreamOrchestrator.process_stream for one chat, *)
(* its cancellation watcher (CancellationHandler._monitor_revocation), the *)
(* context-usage poller that writes to the same per-chat log, and the      *)
(* queue injector.  The main task and the watcher are asyncio tasks of one *)
(* event loop: each action is the code that runs between two suspension   *)
(* points.  Task.cancel() of the main task is delivered as CancelledError  *)
(* at the await the main task is suspended in.                             *)
(*                                                                         *)
(* Scheduler part: executions of one scheduled task by parallel workers,   *)
(* each run doing the duplicate check and the insert of its RUNNING row as *)
(* separate database statements.                                           *)
(***************************************************************************)
EXTENDS Integers, Sequences, FiniteSets, TLC

\* ------------------------------------------------------------------ bounds
\* events the provider iterator may yield in one run
MaxEvents == 2
\* context-usage broadcasts of the poller in one run
MaxPolls == 2
\* wall clock of the scheduler part, in minutes
MaxClock == 4
\* dispatches of the scheduled task
MaxDispatch == 3
\* last year of the reference times given to the recurrence calculator
MaxYear == 2028
\* tasks of the user that no request names
SettledTasks == 8
\* requests the task service receives
MaxRequests == 3
\* ids a ScheduledTask row can take
MaxTaskId == 12
\* MAX_QUEUE_SIZE of app/constants.py, taken small
MAX_QUEUE_SIZE == 2
\* messages added to the queue of the chat
MaxAdds == 3
\* requests the scheduler service serves one after the other
MaxCalls == 2
\* runs of check_due_tasks
MaxChecks == 2
\* calls of update_message and append_to_message
MaxEdits == 2
\* the limit of the query of check_due_tasks: 100 in the code, taken small
\* so that a batch is cut by it
DUE_BATCH_LIMIT == 2

\* -------------------------------------------------------------- constants
\* timedelta(minutes=2) of check_duplicate_execution
DEDUPE_WINDOW_MINUTES == 2
\* service.py: MAX_TASKS_PER_USER
MAX_TASKS_PER_USER == 10

\* MessageStreamStatus
IN_PROGRESS == "in_progress"
COMPLETED == "completed"
INTERRUPTED == "interrupted"
FAILED == "failed"
TerminalStatus == {COMPLETED, INTERRUPTED, FAILED}

\* StreamEvent types the provider yields; "tool_completed" is a top-level
\* tool completion (tool.parent_id null), "sub_tool_completed" stands for a
\* tool_completed event whose tool.parent_id is set.
EventTypes == {"text_delta", "tool_completed", "sub_tool_completed"}

\* the system event of fetch_and_broadcast_context_usage
SystemEvent == "system:context_usage"

\* ids of the two messages the chat holds when the stream starts
UserMessageId == 1
AssistantMessageId == 2
\* assistant_message_id: str | None
NoMessageId == 0

VARIABLES
    \* ---- stream: main task (process_stream, then run_chat_stream's finally)
    mpc,                  \* position of the main task
    events,               \* ctx.events
    fin_status,           \* status argument of the running _finalize_stream
    exc,                  \* exception being handled / propagated
    outcome,              \* how process_stream exited
    final_content,        \* StreamOutcome.final_content / StreamCancelled.final_content
    provider_end,         \* how the provider iterator ended: none, exhausted, error
    assistant_message_id, \* ctx.assistant_message_id
    \* ---- stream: CancellationHandler and its monitor task
    wpc,                  \* position of the monitor task
    was_cancelled,
    cancel_requested,
    cancel_pending,       \* main_task.cancel() called, CancelledError not yet delivered
    cancel_calls,         \* invocations of ai_service.cancel_active_stream()
    \* ---- stream: Redis keys of the chat
    revoked,              \* chat:{id}:revoked = "1"
    task_key,             \* chat:{id}:task exists
    log,                  \* chat:{id}:stream
    queue,                \* chat:{id}:queue
    \* ---- stream: relational store and other collaborators
    messages,             \* Message rows of the chat, by id
    checkpoint_requested, \* sandbox_service.create_checkpoint was called
    frames,               \* injection frames written to the provider transport
    invite_pending,       \* an injection-safe event was published, injector not yet invited
    \* ---- stream: context-usage poller (a separate worker task)
    ppc,
    polls,
    \* ---- scheduler: run_scheduled_task on parallel workers
    clock,                \* wall clock, minutes
    execs,                \* TaskExecution rows
    runs,                 \* per worker: position and start_time of its run
    dispatched,           \* number of dispatches so far
    \* ---- recurrence calculator: one call of calculate_next_datetime
    rc_args,              \* the arguments of the call
    rc_called,            \* the call has returned or raised
    rc_result,            \* what it returned (None before the call)
    \* ---- scheduled-task service: requests of one user
    tasks,                \* ScheduledTask rows of the user, by id
    reqs,                 \* per client: its request in progress
    tnow,                 \* datetime.now(timezone.utc)
    served,               \* requests received so far
    \* ---- queue service and concurrent invitations of the queue injector
    qreqs,                \* per client: its call of the queue service
    inj,                  \* per invitation slot: the check_and_inject in progress
    pushed,               \* RPUSHes so far
    \* ---- scheduler beat (check_due_tasks) and the runs it triggers
    batch,                \* the tasks the last check_due selected, in query order
    checks,               \* check_due runs so far
    triggered,            \* per followed task: execute_task_trigger calls not yet taken up
    drun,                 \* the run in progress: its task and start_time
    \* ---- scheduler service: requests served one after the other
    call,                 \* the last request: operation, caller, task, input, outcome
    ncalls,               \* requests served so far
    \* ---- one run of a scheduled task, with the validation of the API keys
    vrun,                 \* the run: its position, task, start_time, TaskExecution id, result
    texecs,               \* TaskExecution rows of the followed run's task
    made,                 \* what the run created: sandbox, chat, stream
    provider,             \* what get_provider_for_model finds for the task's model
    \* ---- one poll of check_due_tasks, statement by statement
    poll,                 \* its position, the rows of its session, its dispatches, its result
    \* ---- expiry of chat:{id}:queue
    queue_ttl,            \* TTL of the key: the seconds it has left, NoExpiry without one
    edits                 \* calls of update_message and append_to_message so far

streamVars == <<mpc, events, fin_status, exc, outcome, final_content, provider_end,
                assistant_message_id, wpc, was_cancelled, cancel_requested,
                cancel_pending, cancel_calls, revoked, task_key, log, queue, messages,
                checkpoint_requested, frames, invite_pending, ppc, polls>>

schedVars == <<clock, execs, runs, dispatched>>

recVars == <<rc_args, rc_called, rc_result>>

\* everything outside the stream run and the task runner
taskVars == <<tasks, reqs, tnow, served>>

queueVars == <<qreqs, inj, pushed>>

beatVars == <<batch, checks, triggered, drun>>

svcVars == <<call, ncalls>>

runVars == <<vrun, texecs, made, provider>>

pollVars == <<poll>>

ttlVars == <<queue_ttl, edits>>

extVars == <<recVars, taskVars, queueVars, beatVars, svcVars, runVars, pollVars, ttlVars>>

vars == <<streamVars, schedVars, extVars>>

\* ---------------------------------------------------------------- helpers
\* json.dumps(events): the serialized list, distinct from any plain string
JsonDumps(evs) == [json |-> evs]

\* content of an assistant Message at creation: the empty string
EmptyContent == [text |-> ""]

\* one entry of the per-chat log: fields kind and payload
Entry(kind, payload) == [kind |-> kind, payload |-> payload]

NoPayload == "none"

\* _publish_stream_entry / StreamPublisher.publish: XADD at the tail
XAdd(l, kind, payload) == Append(l, Entry(kind, payload))

\* should_try_injection without the test of tool.parent_id
should_try_injection_AnyParent(event) ==
    event \in {"tool_completed", "sub_tool_completed"}

\* QueueInjector.should_try_injection
should_try_injection(event) == event = "tool_completed"

\* Message row
Msg(role, status, content) == [role |-> role, stream_status |-> status, content |-> content]

\* _update_message_status: no-op without an id, else set stream_status
UpdateMessageStatus(msgs, id, status) ==
    IF id = NoMessageId \/ id \notin DOMAIN msgs
    THEN msgs
    ELSE [msgs EXCEPT ![id].stream_status = status]

\* _save_message_content committing the status without the content
SaveMessageContent_StatusOnly(msgs, id, evs, status) ==
    IF id = NoMessageId \/ evs = <<>> \/ id \notin DOMAIN msgs
    THEN msgs
    ELSE [msgs EXCEPT ![id].stream_status = status]

\* _save_message_content: no-op without an id or without events, else
\* content, (cost) and stream_status in one commit
SaveMessageContent(msgs, id, evs, status) ==
    IF id = NoMessageId \/ evs = <<>> \/ id \notin DOMAIN msgs
    THEN msgs
    ELSE [msgs EXCEPT ![id].content = JsonDumps(evs), ![id].stream_status = status]

\* the content of the n-th message added to the chat's queue
ContentOf(n) == <<"q1", "q2", "q3", "q4", "q5", "q6">>[n]

\* an entry of chat:{id}:queue: the JSON of message_data
QueuedMessage(id) == [id |-> id, content |-> ContentOf(id)]

\* pop_next_message returned None / no message at hand
NoMessage == [id |-> 0, content |-> "none"]

StreamInit ==
    /\ mpc = "anext"
    /\ events = <<>>
    /\ fin_status = "none"
    /\ exc = "none"
    /\ outcome = "none"
    /\ final_content = "none"
    /\ provider_end = "none"
    /\ assistant_message_id \in {NoMessageId, AssistantMessageId}
    /\ wpc = "poll"
    /\ was_cancelled = FALSE
    /\ cancel_requested = FALSE
    /\ cancel_pending = FALSE
    /\ cancel_calls = 0
    /\ revoked = FALSE
    /\ task_key = TRUE
    /\ log = <<>>
    /\ queue \in {<<>>, <<QueuedMessage(1)>>}
    /\ messages = [i \in {UserMessageId, AssistantMessageId} |->
                     IF i = UserMessageId
                     THEN Msg("user", "none", [text |-> "prompt"])
                     ELSE Msg("assistant", IN_PROGRESS, EmptyContent)]
    /\ checkpoint_requested = FALSE
    /\ frames = <<>>
    /\ invite_pending = FALSE
    /\ ppc = "idle"
    /\ polls = 0

SchedIdle ==
    /\ clock = 0
    /\ execs = {}
    /\ runs = [w \in {1, 2} |-> [pc |-> "idle", start_time |-> 0, id |-> 0]]
    /\ dispatched = 0

\* ------------------------------------------------ recurrence calculator
\* RecurrenceType
ONCE == "once"
DAILY == "daily"
WEEKLY == "weekly"
MONTHLY == "monthly"

\* a date and an aware UTC datetime, as Python's date and datetime
Date(y, m, d) == [year |-> y, month |-> m, day |-> d]

datetime(y, m, d, hh, mm, ss) ==
    [year |-> y, month |-> m, day |-> d,
     hour |-> hh, minute |-> mm, second |-> ss, microsecond |-> 0]

\* Python's None where a datetime is expected
None == datetime(0, 0, 0, 0, 0, 0)

\* the call left through `raise SchedulerException`
SchedulerException == datetime(-1, 0, 0, 0, 0, 0)

\* scheduled_day is None
NoDay == -1

IsLeap(y) == (y % 4 = 0 /\ y % 100 # 0) \/ y % 400 = 0

\* calendar.monthrange(year, month)[1]: the number of days of the month
monthrange(year, month) ==
    IF month = 2 THEN (IF IsLeap(year) THEN 29 ELSE 28)
    ELSE IF month \in {4, 6, 9, 11} THEN 30
    ELSE 31

RECURSIVE DaysBeforeMonth(_, _)
DaysBeforeMonth(year, month) ==
    IF month = 1 THEN 0
    ELSE DaysBeforeMonth(year, month - 1) + monthrange(year, month - 1)

DaysBeforeYear(year) ==
    LET y == year - 1
    IN  y * 365 + (y \div 4) - (y \div 100) + (y \div 400)

\* date.toordinal(): day 1 is 0001-01-01
toordinal(d) == DaysBeforeYear(d.year) + DaysBeforeMonth(d.year, d.month) + d.day

\* date.weekday(): Monday is 0
weekday(d) == (toordinal(d) + 6) % 7

\* date + timedelta(days=1)
NextDate(d) ==
    IF d.day < monthrange(d.year, d.month) THEN Date(d.year, d.month, d.day + 1)
    ELSE IF d.month < 12 THEN Date(d.year, d.month + 1, 1)
    ELSE Date(d.year + 1, 1, 1)

\* date + timedelta(days=n)
RECURSIVE AddDays(_, _)
AddDays(d, n) == IF n = 0 THEN d ELSE AddDays(NextDate(d), n - 1)

\* datetime.date()
DateOf(dt) == Date(dt.year, dt.month, dt.day)

\* the whole seconds since midnight
SecondOfDay(dt) == (dt.hour * 60 + dt.minute) * 60 + dt.second

\* a < b and a <= b on aware UTC datetimes
DtLess(a, b) ==
    LET oa == toordinal(DateOf(a))
        ob == toordinal(DateOf(b))
        sa == SecondOfDay(a)
        sb == SecondOfDay(b)
    IN  \/ oa < ob
        \/ oa = ob /\ sa < sb
        \/ oa = ob /\ sa = sb /\ a.microsecond < b.microsecond

DtLeq(a, b) == a = b \/ DtLess(a, b)

\* the parse without the optional seconds part
ParseTime_NoSeconds(scheduled_time) ==
    [hour |-> scheduled_time[1], minute |-> scheduled_time[2], second |-> 0]

\* scheduled_time.split(":") with int() of each part: "H:M" or "H:M:S"
ParseTime(scheduled_time) ==
    [hour   |-> scheduled_time[1],
     minute |-> scheduled_time[2],
     second |-> IF Len(scheduled_time) = 3 THEN scheduled_time[3] ELSE 0]

\* _calculate_daily_execution with the comparison `<` in place of `<=`
calculate_daily_execution_Lt(from_time, hour, minute, second) ==
    LET next_date == DateOf(from_time)
        next_dt == datetime(next_date.year, next_date.month, next_date.day,
                            hour, minute, second)
    IN  IF DtLess(next_dt, from_time)
        THEN LET tomorrow == AddDays(next_date, 1)
             IN  datetime(tomorrow.year, tomorrow.month, tomorrow.day,
                          hour, minute, second)
        ELSE next_dt

\* _calculate_daily_execution
calculate_daily_execution(from_time, hour, minute, second) ==
    LET next_date == DateOf(from_time)
        next_dt == datetime(next_date.year, next_date.month, next_date.day,
                            hour, minute, second)
    IN  IF DtLeq(next_dt, from_time)
        THEN LET tomorrow == AddDays(next_date, 1)
             IN  datetime(tomorrow.year, tomorrow.month, tomorrow.day,
                          hour, minute, second)
        ELSE next_dt

\* the WEEKLY branch with the same-day rollover left out
calculate_weekly_NoRollover(target_weekday, from_time, t) ==
    LET current_date == DateOf(from_time)
        next_date == AddDays(current_date, (target_weekday - weekday(current_date)) % 7)
    IN  datetime(next_date.year, next_date.month, next_date.day,
                 t.hour, t.minute, t.second)

\* the WEEKLY branch of calculate_next_datetime
calculate_weekly(target_weekday, from_time, t) ==
    LET current_date == DateOf(from_time)
        current_weekday == weekday(current_date)
        days_mod == (target_weekday - current_weekday) % 7
        test_dt == datetime(current_date.year, current_date.month, current_date.day,
                            t.hour, t.minute, t.second)
        days_ahead == IF days_mod = 0 /\ DtLeq(test_dt, from_time) THEN 7 ELSE days_mod
        next_date == AddDays(current_date, days_ahead)
    IN  datetime(next_date.year, next_date.month, next_date.day,
                 t.hour, t.minute, t.second)

\* the day of the month a MONTHLY task fires on: min(target_day, max_day)
ClampDay(target_day, year, month) ==
    LET max_day == monthrange(year, month)
    IN  IF target_day < max_day THEN target_day ELSE max_day

\* the MONTHLY branch with the day of the next month not clamped again
calculate_monthly_NoReclamp(target_day, from_time, t) ==
    LET current_date == DateOf(from_time)
        year == current_date.year
        month == current_date.month
        day == ClampDay(target_day, year, month)
        test_dt == datetime(year, month, day, t.hour, t.minute, t.second)
    IN  IF DtLeq(test_dt, from_time)
        THEN LET year2 == IF month = 12 THEN year + 1 ELSE year
                 month2 == IF month = 12 THEN 1 ELSE month + 1
             IN  datetime(year2, month2, day, t.hour, t.minute, t.second)
        ELSE test_dt

\* the MONTHLY branch of calculate_next_datetime
calculate_monthly(target_day, from_time, t) ==
    LET current_date == DateOf(from_time)
        year == current_date.year
        month == current_date.month
        day == ClampDay(target_day, year, month)
        test_dt == datetime(year, month, day, t.hour, t.minute, t.second)
    IN  IF DtLeq(test_dt, from_time)
        THEN LET year2 == IF month = 12 THEN year + 1 ELSE year
                 month2 == IF month = 12 THEN 1 ELSE month + 1
             IN  datetime(year2, month2, ClampDay(target_day, year2, month2),
                          t.hour, t.minute, t.second)
        ELSE test_dt

\* calculate_next_datetime
calculate_next_datetime(recurrence_type, scheduled_time, scheduled_day, from_time, allow_once) ==
    LET t == ParseTime(scheduled_time)
    IN  IF recurrence_type = ONCE
        THEN IF ~allow_once THEN None
             ELSE calculate_daily_execution(from_time, t.hour, t.minute, t.second)
        ELSE IF recurrence_type = DAILY
        THEN calculate_daily_execution(from_time, t.hour, t.minute, t.second)
        ELSE IF recurrence_type = WEEKLY
        THEN IF scheduled_day = NoDay \/ scheduled_day < 0 \/ scheduled_day > 6
             THEN SchedulerException
             ELSE calculate_weekly(scheduled_day, from_time, t)
        ELSE IF recurrence_type = MONTHLY
        THEN IF scheduled_day = NoDay \/ scheduled_day < 1 \/ scheduled_day > 31
             THEN SchedulerException
             ELSE calculate_monthly(scheduled_day, from_time, t)
        ELSE SchedulerException

\* ------------------------------------------------- scheduled-task service
\* TaskStatus
ACTIVE == "active"
PENDING == "pending"
PAUSED == "paused"
TASK_COMPLETED == "completed"

\* the row of an id that was never inserted, and of one that was deleted
ABSENT == "absent"
DELETED == "deleted"

Clients == {1, 2}

TaskIds == 1 .. MaxTaskId

\* the users; a ScheduledTask row made by TaskRow belongs to TheUser
TheUser == 1
OtherUser == 2

\* a ScheduledTask row; a new row has no execution behind it
TaskRow(enabled, status, last_error, next_execution, rule) ==
    [user_id |-> TheUser, enabled |-> enabled, status |-> status, last_error |-> last_error,
     next_execution |-> next_execution, recurrence_type |-> rule.recurrence_type,
     scheduled_time |-> rule.scheduled_time, scheduled_day |-> rule.scheduled_day,
     execution_count |-> 0, failure_count |-> 0, last_execution |-> None]

TaskRule(r, t, d) == [recurrence_type |-> r, scheduled_time |-> t, scheduled_day |-> d]

NoRow(status) == TaskRow(FALSE, status, "none", None, TaskRule(DAILY, <<0, 0>>, NoDay))

RowExists(row) == row.status \notin {ABSENT, DELETED}

\* _validate_task_limit's query: the enabled tasks of user_id in ACTIVE or
\* PENDING, without exclude_task_id (0: no exclusion)
EnabledCount(rows, user_id, exclude_task_id) ==
    Cardinality({i \in DOMAIN rows : /\ i # exclude_task_id
                                     /\ rows[i].user_id = user_id
                                     /\ rows[i].enabled
                                     /\ rows[i].status \in {ACTIVE, PENDING}})

\* _validate_task_limit with `<=` in place of `<`
validate_task_limit_Leq(rows, user_id, exclude_task_id) ==
    EnabledCount(rows, user_id, exclude_task_id) <= MAX_TASKS_PER_USER

\* _validate_task_limit
validate_task_limit(rows, user_id, exclude_task_id) ==
    EnabledCount(rows, user_id, exclude_task_id) < MAX_TASKS_PER_USER

\* validate_recurrence_constraints: TRUE when it does not raise
validate_recurrence_constraints(recurrence_type, scheduled_day) ==
    IF recurrence_type = WEEKLY THEN scheduled_day # NoDay /\ scheduled_day \in 0..6
    ELSE IF recurrence_type = MONTHLY THEN scheduled_day # NoDay /\ scheduled_day \in 1..31
    ELSE TRUE

\* calculate_initial_next_execution at the time `at`; SchedulerException
\* when the calculator returns None
calculate_initial_next_execution(rule, at) ==
    LET result == calculate_next_datetime(rule.recurrence_type, rule.scheduled_time,
                                          rule.scheduled_day, at, TRUE)
    IN  IF result = None THEN SchedulerException ELSE result

\* ------------------------------------------- scheduler beat and task runs
\* calculate_next_execution(task, from_time)
calculate_next_execution(row, from_time) ==
    calculate_next_datetime(row.recurrence_type, row.scheduled_time, row.scheduled_day,
                            from_time, FALSE)

\* the WHERE clause of check_due_tasks with `<` in place of `<=`
IsDue_Lt(row, now) ==
    /\ row.enabled
    /\ row.status = ACTIVE
    /\ row.next_execution # None
    /\ DtLess(row.next_execution, now)

\* the WHERE clause of check_due_tasks; a comparison with NULL is not true
IsDue(row, now) ==
    /\ row.enabled
    /\ row.status = ACTIVE
    /\ row.next_execution # None
    /\ DtLeq(row.next_execution, now)

DueIds(rows, now) == {i \in DOMAIN rows : IsDue(rows[i], now)}

\* ORDER BY next_execution LIMIT n: the sets of rows the query can return.
\* Rows whose next_execution ties across the limit are cut at the
\* database's choice.
LimitedSets(rows, D, n) ==
    LET Upto(i) == {j \in D : DtLeq(rows[j].next_execution, rows[i].next_execution)}
        Before(i) == {j \in D : DtLess(rows[j].next_execution, rows[i].next_execution)}
        Sure == {i \in D : Cardinality(Upto(i)) <= n}
        Edge == {i \in D \ Sure : Cardinality(Before(i)) < n}
    IN  IF Edge = {} THEN {Sure}
        ELSE {Sure \cup K : K \in {L \in SUBSET Edge : Cardinality(L) = n - Cardinality(Sure)}}

\* result.scalars().all(): the rows of S in ascending next_execution
\* (equal values by id)
OrderByNextExecution(rows, S) ==
    LET rank == [i \in S |->
                    Cardinality({j \in S :
                        \/ DtLess(rows[j].next_execution, rows[i].next_execution)
                        \/ (rows[j].next_execution = rows[i].next_execution /\ j < i)})]
    IN  [p \in 1..Cardinality(S) |-> CHOOSE i \in S : rank[i] = p - 1]

\* check_due_tasks, the loop body without the status PENDING for a task
\* with no next execution
AfterDue_KeepStatus(row, now) ==
    [row EXCEPT !.next_execution = calculate_next_execution(row, now)]

\* check_due_tasks, the loop body for one selected task
AfterDue(row, now) ==
    LET next_exec == calculate_next_execution(row, now)
    IN  IF next_exec = None
        THEN [row EXCEPT !.next_execution = None, !.status = PENDING]
        ELSE [row EXCEPT !.next_execution = next_exec]

\* update_task_after_execution that does not record last_execution
update_task_after_execution_NoLastExecution(row, start_time, success, error_message) ==
    LET counted == IF success
                   THEN [row EXCEPT !.execution_count = @ + 1,
                                    !.last_error = "none"]
                   ELSE [row EXCEPT !.failure_count = @ + 1,
                                    !.last_error = error_message]
        next_exec == calculate_next_execution(row, start_time)
    IN  IF next_exec = None
        THEN [counted EXCEPT !.enabled = FALSE, !.status = TASK_COMPLETED,
                             !.next_execution = None]
        ELSE [counted EXCEPT !.next_execution = next_exec]

\* update_task_after_execution on the row of the task
update_task_after_execution(row, start_time, success, error_message) ==
    LET counted == IF success
                   THEN [row EXCEPT !.execution_count = @ + 1,
                                    !.last_execution = start_time,
                                    !.last_error = "none"]
                   ELSE [row EXCEPT !.failure_count = @ + 1,
                                    !.last_error = error_message]
        next_exec == calculate_next_execution(row, start_time)
    IN  IF next_exec = None
        THEN [counted EXCEPT !.enabled = FALSE, !.status = TASK_COMPLETED,
                             !.next_execution = None]
        ELSE [counted EXCEPT !.next_execution = next_exec]

\* the id of the next inserted row
FreshId(rows) ==
    IF \E i \in DOMAIN rows : rows[i].status = ABSENT
    THEN CHOOSE i \in DOMAIN rows :
            /\ rows[i].status = ABSENT
            /\ \A j \in DOMAIN rows : rows[j].status = ABSENT => i <= j
    ELSE 0

\* the UPDATE a commit sends for a loaded object: the attributes that
\* differ from the loaded values, written onto the stored row
Flush(current, loaded, changed) ==
    [f \in DOMAIN current |-> IF changed[f] # loaded[f] THEN changed[f] ELSE current[f]]

\* no request of the client is in progress
IdleRequest(result) ==
    [pc |-> "idle", op |-> "none", task_id |-> 0, loaded |-> NoRow(ABSENT),
     changed |-> NoRow(ABSENT), result |-> result]

\* the service is at rest: tasks 1 .. SettledTasks + 1 are enabled daily
\* tasks, the next one is paused after a failed run, the other ids are free
TasksIdle ==
    /\ tnow = datetime(2027, 1, 1, 9, 0, 0)
    /\ tasks = [i \in TaskIds |->
                  IF i <= SettledTasks + 1
                  THEN TaskRow(TRUE, ACTIVE, "none", datetime(2027, 1, 1, 10, 0, 0),
                               TaskRule(DAILY, <<10, 0>>, NoDay))
                  ELSE IF i = SettledTasks + 2
                  THEN TaskRow(FALSE, PAUSED, "boom", datetime(2026, 12, 31, 10, 0, 0),
                               TaskRule(DAILY, <<10, 0>>, NoDay))
                  ELSE NoRow(ABSENT)]
    /\ reqs = [c \in Clients |-> IdleRequest("none")]
    /\ served = 0

\* --------------------------------------------------------- queue service
\* LLEN
LLen(q) == Len(q)

\* add_message's test of the length with `>` in place of `>=`
QueueIsFull_Gt(current_len) == current_len > MAX_QUEUE_SIZE

\* add_message: current_len >= MAX_QUEUE_SIZE
QueueIsFull(current_len) == current_len >= MAX_QUEUE_SIZE

\* RPUSH
RPush(q, raw) == Append(q, raw)

\* an LPOP that reads the head and leaves it in the list
LPop_Peek(q) == q

\* LPOP: the list without its head
LPop(q) == IF q = <<>> THEN q ELSE Tail(q)

\* the index of the first entry equal to raw, 0 when there is none
IndexOf(q, raw) ==
    IF \E k \in DOMAIN q : q[k] = raw
    THEN CHOOSE k \in DOMAIN q : q[k] = raw /\ \A j \in DOMAIN q : q[j] = raw => k <= j
    ELSE 0

\* LREM key 1 raw: the first entry equal to raw is removed
LRem(q, raw) ==
    LET k == IndexOf(q, raw)
    IN  IF k = 0 THEN q
        ELSE [j \in 1..(Len(q) - 1) |-> IF j < k THEN q[j] ELSE q[j + 1]]

\* the entry with the given id in the list LRANGE returned
FindById(q, id) ==
    IF \E k \in DOMAIN q : q[k].id = id
    THEN q[CHOOSE k \in DOMAIN q : q[k].id = id /\ \A j \in DOMAIN q : q[j].id = id => k <= j]
    ELSE NoMessage

\* no call of the queue service and no invitation of the injector in progress
QueueIdle ==
    /\ qreqs = [c \in {1, 2} |-> [pc |-> "idle", op |-> "none", current_len |-> 0,
                                  raw |-> NoMessage, result |-> "none"]]
    /\ inj = [i \in {1, 2} |-> [pc |-> "idle", msg |-> NoMessage, base |-> 0]]
    /\ pushed = 0

\* no call of the calculator has been made
RecIdle ==
    /\ rc_args = [recurrence_type |-> DAILY, scheduled_time |-> <<0, 0>>,
                  scheduled_day |-> NoDay, from_time |-> datetime(2027, 1, 1, 0, 0, 0),
                  allow_once |-> FALSE]
    /\ rc_called = FALSE
    /\ rc_result = None

\* the tasks whose runs are followed
FollowedIds == 1 .. 4

\* no run is in progress
NoRun == [pc |-> "idle", task_id |-> 0, start_time |-> None, success |-> FALSE]

\* the beat has not run
BeatIdle ==
    /\ batch = <<>>
    /\ checks = 0
    /\ triggered = [i \in FollowedIds |-> 0]
    /\ drun = NoRun

\* a field the request does not set (model_dump(exclude_unset=True))
Unset == "unset"
UnsetDay == -2
UnsetTime == <<>>

\* the body of a request: the fields of ScheduledTaskBase / ScheduledTaskUpdate
\* the service reads
TaskData(recurrence_type, scheduled_time, scheduled_day, enabled) ==
    [recurrence_type |-> recurrence_type, scheduled_time |-> scheduled_time,
     scheduled_day |-> scheduled_day, enabled |-> enabled]

NoData == TaskData(Unset, UnsetTime, UnsetDay, Unset)

\* a served request and how it ended
Call(op, user_id, task_id, data, result) ==
    [op |-> op, user_id |-> user_id, task_id |-> task_id, data |-> data, result |-> result]

\* no request has been served
SvcIdle ==
    /\ call = Call("none", 0, 0, NoData, "none")
    /\ ncalls = 0

\* a provider entry of UserSettings.custom_providers, as validate_model_api_keys
\* reads it: found or not, enabled, provider_type, auth_token and base_url set
Provider(found, enabled, provider_type, auth_token, base_url) ==
    [found |-> found, enabled |-> enabled, provider_type |-> provider_type,
     auth_token |-> auth_token, base_url |-> base_url]

\* get_provider_for_model returns (None, model_id)
NoProvider == Provider(FALSE, FALSE, "custom", FALSE, FALSE)

\* no run with validation is in progress
NoValidatedRun == [pc |-> "idle", task_id |-> 0, start_time |-> None, execution_id |-> 0,
                   result |-> "none"]

\* no scheduled run has started
RunIdle ==
    /\ vrun = NoValidatedRun
    /\ texecs = {}
    /\ made = {}
    /\ provider = NoProvider

\* the key has no TTL
NoExpiry == -1

TtlIdle == queue_ttl = NoExpiry /\ edits = 0

\* no poll of check_due_tasks is in progress
NoPoll == [pc |-> "idle", now |-> None, before |-> <<>>, loaded |-> <<>>, selected |-> <<>>,
           pending |-> <<>>, dispatched |-> <<>>, result |-> "none"]

PollIdle == poll = NoPoll

\* the parts outside the stream run and the task runner are at rest
ExtIdle == RecIdle /\ TasksIdle /\ QueueIdle /\ BeatIdle /\ SvcIdle /\ RunIdle /\ PollIdle /\ TtlIdle

\* ------------------------------------------------- cancellation handler
\* cancel_stream without the check of the cancel_requested latch
CancelStreamCalls_NoLatch(requested) == 1

\* CancellationHandler.cancel_stream: the number of calls of
\* ai_service.cancel_active_stream() it makes, given the cancel_requested latch
CancelStreamCalls(requested) == IF requested THEN 0 ELSE 1

\* process_stream's fallback after the loop: a direct call of
\* cancel_active_stream() when was_cancelled and not cancel_requested
FallbackCalls(cancelled, requested) == IF cancelled /\ ~requested THEN 1 ELSE 0

\* the finally of _process_stream_events: revocation_task.cancel() and the
\* await of it; a monitor task that has not finished ends cancelled
KillWatcher(w) == IF w \in {"poll", "cancelling"} THEN "cancelled" ELSE w

\* process_stream without the check for an empty stream
EmptyStreamIsError_Never(evs) == FALSE

\* "if not ctx.events: raise ClaudeAgentException"
EmptyStreamIsError(evs) == evs = <<>>

\* where process_stream goes once _process_stream_events has returned
AfterLoopPc(cancelled, evs) ==
    IF cancelled THEN "upd_interrupted"
    ELSE IF EmptyStreamIsError(evs) THEN "h_publish_error"
    ELSE "fin_publish"

\* _process_stream_events returns (break): its finally, then process_stream
\* up to its next await.  req and calls are cancel_requested and the number
\* of cancel_active_stream() calls as the loop left them.
ExitLoop(req, calls) ==
    /\ wpc' = KillWatcher(wpc)
    /\ cancel_requested' = req
    /\ cancel_calls' = calls + FallbackCalls(was_cancelled, req)
    /\ mpc' = AfterLoopPc(was_cancelled, events)
    /\ exc' = IF mpc' = "h_publish_error" THEN "ClaudeAgentException" ELSE exc
    /\ fin_status' = IF mpc' = "fin_publish" THEN COMPLETED ELSE fin_status

\* ---------------------------------------------------------- main task
\* stream_iter.__anext__() returns an event: it is buffered and the task
\* suspends in publisher.publish_event
ProviderYield(e) ==
    /\ UNCHANGED <<schedVars, extVars>>
    /\ mpc = "anext"
    /\ ~cancel_pending
    /\ ~invite_pending
    /\ Len(events) < MaxEvents
    /\ events' = Append(events, e)
    /\ mpc' = "publish"
    /\ UNCHANGED <<fin_status, exc, outcome, final_content, provider_end,
                   assistant_message_id, wpc, was_cancelled, cancel_requested,
                   cancel_pending, cancel_calls, revoked, task_key, log, queue, messages,
                   checkpoint_requested, frames, invite_pending, ppc, polls>>

\* publish_event completes: the content entry is in the log; update_state
\* is synchronous; the task suspends in __anext__ again
PublishEvent ==
    /\ UNCHANGED <<schedVars, extVars>>
    /\ mpc = "publish"
    /\ ~cancel_pending
    /\ log' = XAdd(log, "content", events[Len(events)])
    /\ invite_pending' = should_try_injection(events[Len(events)])
    /\ mpc' = "anext"
    /\ UNCHANGED <<events, fin_status, exc, outcome, final_content, provider_end,
                   assistant_message_id, wpc, was_cancelled, cancel_requested,
                   cancel_pending, cancel_calls, revoked, task_key, queue, messages,
                   checkpoint_requested, frames, ppc, polls>>

\* StopAsyncIteration: break
ProviderStop ==
    /\ UNCHANGED <<schedVars, extVars>>
    /\ mpc = "anext"
    /\ ~cancel_pending
    /\ ~invite_pending
    /\ provider_end' = "exhausted"
    /\ ExitLoop(cancel_requested, cancel_calls)
    /\ UNCHANGED <<events, outcome, final_content,
                   assistant_message_id, was_cancelled,
                   cancel_pending, revoked, task_key, log, queue, messages,
                   checkpoint_requested, frames, invite_pending, ppc, polls>>

\* __anext__ raises an ordinary error: it leaves the loop through the
\* finally and reaches "except Exception" of process_stream
ProviderError ==
    /\ UNCHANGED <<schedVars, extVars>>
    /\ mpc = "anext"
    /\ ~cancel_pending
    /\ ~invite_pending
    /\ provider_end' = "error"
    /\ exc' = "ProviderError"
    /\ wpc' = KillWatcher(wpc)
    /\ mpc' = "h_publish_error"
    /\ UNCHANGED <<events, fin_status, outcome, final_content,
                   assistant_message_id, was_cancelled, cancel_requested,
                   cancel_pending, cancel_calls, revoked, task_key, log, queue, messages,
                   checkpoint_requested, frames, invite_pending, ppc, polls>>

\* CancelledError delivered while awaiting __anext__: with was_cancelled,
\* cancel_stream and break; without it, re-raised (a BaseException, so it
\* passes "except Exception" and leaves process_stream)
CancelAtAnext ==
    /\ UNCHANGED <<schedVars, extVars>>
    /\ mpc = "anext"
    /\ cancel_pending
    /\ cancel_pending' = FALSE
    /\ invite_pending' = FALSE
    /\ IF was_cancelled
       THEN /\ ExitLoop(TRUE, cancel_calls + CancelStreamCalls(cancel_requested))
            /\ UNCHANGED outcome
       ELSE /\ wpc' = KillWatcher(wpc)
            /\ mpc' = "exited"
            /\ exc' = "CancelledError"
            /\ outcome' = "CancelledError"
            /\ UNCHANGED <<cancel_calls, cancel_requested, fin_status>>
    /\ UNCHANGED <<events, final_content, provider_end,
                   assistant_message_id, was_cancelled,
                   revoked, task_key, log, queue, messages,
                   checkpoint_requested, frames, ppc, polls>>

\* CancelledError delivered while awaiting publish_event: that await is
\* outside the try around __anext__, so the error leaves the loop through
\* the finally and, being a BaseException, leaves process_stream too.  The
\* XADD in flight may or may not have reached the log.
CancelAtPublish ==
    /\ UNCHANGED <<schedVars, extVars>>
    /\ mpc = "publish"
    /\ cancel_pending
    /\ cancel_pending' = FALSE
    /\ \E appended \in BOOLEAN :
          log' = IF appended THEN XAdd(log, "content", events[Len(events)]) ELSE log
    /\ wpc' = KillWatcher(wpc)
    /\ mpc' = "exited"
    /\ exc' = "CancelledError"
    /\ outcome' = "CancelledError"
    /\ UNCHANGED <<events, fin_status, final_content, provider_end,
                   assistant_message_id, was_cancelled, cancel_requested,
                   cancel_calls, revoked, task_key, queue, messages,
                   checkpoint_requested, frames, invite_pending, ppc, polls>>

\* ------------------------------------------- process_stream after the loop
\* _update_message_status(INTERRUPTED), then _finalize_stream is entered
UpdateInterrupted ==
    /\ UNCHANGED <<schedVars, extVars>>
    /\ mpc = "upd_interrupted"
    /\ messages' = UpdateMessageStatus(messages, assistant_message_id, INTERRUPTED)
    /\ fin_status' = INTERRUPTED
    /\ mpc' = "fin_publish"
    /\ UNCHANGED <<events, exc, outcome, final_content, provider_end,
                   assistant_message_id, wpc, was_cancelled, cancel_requested,
                   cancel_pending, cancel_calls, revoked, task_key, log, queue,
                   checkpoint_requested, frames, invite_pending, ppc, polls>>

\* _finalize_stream: final_content = json.dumps(ctx.events), publish_complete
FinalizePublishComplete ==
    /\ UNCHANGED <<schedVars, extVars>>
    /\ mpc = "fin_publish"
    /\ final_content' = JsonDumps(events)
    /\ log' = XAdd(log, "complete", NoPayload)
    /\ mpc' = "fin_save"
    /\ UNCHANGED <<events, fin_status, exc, outcome, provider_end,
                   assistant_message_id, wpc, was_cancelled, cancel_requested,
                   cancel_pending, cancel_calls, revoked, task_key, queue, messages,
                   checkpoint_requested, frames, invite_pending, ppc, polls>>

\* _finalize_stream: _save_message_content with the status it was given;
\* INTERRUPTED returns to process_stream, which raises StreamCancelled
FinalizeSave ==
    /\ UNCHANGED <<schedVars, extVars>>
    /\ mpc = "fin_save"
    /\ messages' = SaveMessageContent(messages, assistant_message_id, events, fin_status)
    /\ IF fin_status = COMPLETED
       THEN /\ mpc' = "checkpoint"
            /\ UNCHANGED outcome
       ELSE /\ mpc' = "exited"
            /\ outcome' = "StreamCancelled"
    /\ UNCHANGED <<events, fin_status, exc, final_content, provider_end,
                   assistant_message_id, wpc, was_cancelled, cancel_requested,
                   cancel_pending, cancel_calls, revoked, task_key, log, queue,
                   checkpoint_requested, frames, invite_pending, ppc, polls>>

\* _create_checkpoint_if_needed (COMPLETED only; the chat has a sandbox),
\* then process_stream returns the outcome
Checkpoint ==
    /\ UNCHANGED <<schedVars, extVars>>
    /\ mpc = "checkpoint"
    /\ checkpoint_requested' = (assistant_message_id # NoMessageId)
    /\ mpc' = "exited"
    /\ outcome' = "returned"
    /\ UNCHANGED <<events, fin_status, exc, final_content, provider_end,
                   assistant_message_id, wpc, was_cancelled, cancel_requested,
                   cancel_pending, cancel_calls, revoked, task_key, log, queue, messages,
                   frames, invite_pending, ppc, polls>>

\* except Exception: publisher.publish_error(str(exc))
HandlerPublishError ==
    /\ UNCHANGED <<schedVars, extVars>>
    /\ mpc = "h_publish_error"
    /\ log' = XAdd(log, "error", exc)
    /\ mpc' = "h_update"
    /\ UNCHANGED <<events, fin_status, exc, outcome, final_content, provider_end,
                   assistant_message_id, wpc, was_cancelled, cancel_requested,
                   cancel_pending, cancel_calls, revoked, task_key, queue, messages,
                   checkpoint_requested, frames, invite_pending, ppc, polls>>

\* except Exception: _update_message_status(FAILED)
HandlerUpdateFailed ==
    /\ UNCHANGED <<schedVars, extVars>>
    /\ mpc = "h_update"
    /\ messages' = UpdateMessageStatus(messages, assistant_message_id, FAILED)
    /\ mpc' = "h_save"
    /\ UNCHANGED <<events, fin_status, exc, outcome, final_content, provider_end,
                   assistant_message_id, wpc, was_cancelled, cancel_requested,
                   cancel_pending, cancel_calls, revoked, task_key, log, queue,
                   checkpoint_requested, frames, invite_pending, ppc, polls>>

\* except Exception: _save_message_content(FAILED) when there are events,
\* then the bare raise
HandlerSave ==
    /\ UNCHANGED <<schedVars, extVars>>
    /\ mpc = "h_save"
    /\ messages' = SaveMessageContent(messages, assistant_message_id, events, FAILED)
    /\ mpc' = "exited"
    /\ outcome' = "raised"
    /\ UNCHANGED <<events, fin_status, exc, final_content, provider_end,
                   assistant_message_id, wpc, was_cancelled, cancel_requested,
                   cancel_pending, cancel_calls, revoked, task_key, log, queue,
                   checkpoint_requested, frames, invite_pending, ppc, polls>>

\* run_chat_stream's finally, publisher.cleanup(): the task-liveness and
\* revocation keys are deleted
Cleanup ==
    /\ UNCHANGED <<schedVars, extVars>>
    /\ mpc = "exited"
    /\ task_key' = FALSE
    /\ revoked' = FALSE
    /\ mpc' = "done"
    /\ UNCHANGED <<events, fin_status, exc, outcome, final_content, provider_end,
                   assistant_message_id, wpc, was_cancelled, cancel_requested,
                   cancel_pending, cancel_calls, log, queue, messages,
                   checkpoint_requested, frames, invite_pending, ppc, polls>>

\* a step of _finalize_stream ahead of publish_complete raises an ordinary
\* error (get_total_cost_usd() or json.dumps(ctx.events)); it is inside the
\* try of process_stream, so "except Exception" handles it
FinalizeRaises ==
    /\ UNCHANGED <<schedVars, extVars>>
    /\ mpc = "fin_publish"
    /\ exc' = "FinalizeError"
    /\ mpc' = "h_publish_error"
    /\ UNCHANGED <<events, fin_status, outcome, final_content, provider_end,
                   assistant_message_id, wpc, was_cancelled, cancel_requested,
                   cancel_pending, cancel_calls, revoked, task_key, log, queue, messages,
                   checkpoint_requested, frames, invite_pending, ppc, polls>>

\* ------------------------------------------------- client and monitor task
\* the client sets chat:{id}:revoked = "1" while the run is not over
Revoke ==
    /\ UNCHANGED <<schedVars, extVars>>
    /\ mpc # "done"
    /\ ~revoked
    /\ revoked' = TRUE
    /\ UNCHANGED <<mpc, events, fin_status, exc, outcome, final_content, provider_end,
                   assistant_message_id, wpc, was_cancelled, cancel_requested,
                   cancel_pending, cancel_calls, task_key, log, queue, messages,
                   checkpoint_requested, frames, invite_pending, ppc, polls>>

\* _monitor_revocation: wait_for_revocation returns; was_cancelled is set
\* and cancel_stream runs up to its await of cancel_active_stream() (or, with
\* the latch already set, straight on to main_task.cancel())
WatcherDetect ==
    /\ UNCHANGED <<schedVars, extVars>>
    /\ wpc = "poll"
    /\ revoked
    /\ was_cancelled' = TRUE
    /\ cancel_calls' = cancel_calls + CancelStreamCalls(cancel_requested)
    /\ cancel_requested' = TRUE
    /\ IF CancelStreamCalls(cancel_requested) = 0
       THEN /\ wpc' = "finished"
            /\ cancel_pending' = TRUE
       ELSE /\ wpc' = "cancelling"
            /\ UNCHANGED cancel_pending
    /\ UNCHANGED <<mpc, events, fin_status, exc, outcome, final_content, provider_end,
                   assistant_message_id, revoked, task_key, log, queue, messages,
                   checkpoint_requested, frames, invite_pending, ppc, polls>>

\* _monitor_revocation: cancel_active_stream() has returned (or raised and
\* was logged): main_task.cancel()
WatcherCancelMain ==
    /\ UNCHANGED <<schedVars, extVars>>
    /\ wpc = "cancelling"
    /\ cancel_pending' = TRUE
    /\ wpc' = "finished"
    /\ UNCHANGED <<mpc, events, fin_status, exc, outcome, final_content, provider_end,
                   assistant_message_id, was_cancelled, cancel_requested,
                   cancel_calls, revoked, task_key, log, queue, messages,
                   checkpoint_requested, frames, invite_pending, ppc, polls>>

\* ---------------------------------------------------- context-usage poller
\* _is_stream_active: the task key exists and the chat is not revoked
is_stream_active(task_exists, is_revoked) == task_exists /\ ~is_revoked

\* SessionUpdateCallback.__call__ / run_chat_stream: context_usage_trigger
\* starts _poll_context_usage_while_streaming on another worker
TriggerContextUsage ==
    /\ UNCHANGED <<schedVars, extVars>>
    /\ ppc = "idle"
    /\ mpc = "anext"
    /\ ppc' = "fetch"
    /\ UNCHANGED <<mpc, events, fin_status, exc, outcome, final_content, provider_end,
                   assistant_message_id, wpc, was_cancelled, cancel_requested,
                   cancel_pending, cancel_calls, revoked, task_key, log, queue, messages,
                   checkpoint_requested, frames, invite_pending, polls>>

\* fetch_and_broadcast_context_usage: with a token usage, the system event
\* is appended to the chat's log as a content entry; without one (None or an
\* error) nothing is published
PollerBroadcast ==
    /\ UNCHANGED <<schedVars, extVars>>
    /\ ppc = "fetch"
    /\ polls < MaxPolls
    /\ \E usage \in BOOLEAN :
          log' = IF usage THEN XAdd(log, "content", SystemEvent) ELSE log
    /\ polls' = polls + 1
    /\ ppc' = "check"
    /\ UNCHANGED <<mpc, events, fin_status, exc, outcome, final_content, provider_end,
                   assistant_message_id, wpc, was_cancelled, cancel_requested,
                   cancel_pending, cancel_calls, revoked, task_key, queue, messages,
                   checkpoint_requested, frames, invite_pending>>

\* _poll_context_usage_while_streaming: after the broadcast, break unless
\* the stream is active; else sleep and fetch again
PollerCheck ==
    /\ UNCHANGED <<schedVars, extVars>>
    /\ ppc = "check"
    /\ ppc' = IF is_stream_active(task_key, revoked) THEN "fetch" ELSE "done"
    /\ UNCHANGED <<mpc, events, fin_status, exc, outcome, final_content, provider_end,
                   assistant_message_id, wpc, was_cancelled, cancel_requested,
                   cancel_pending, cancel_calls, revoked, task_key, log, queue, messages,
                   checkpoint_requested, frames, invite_pending, polls>>

\* --------------------------------------------------------- queue injector
\* QueueInjector._create_queue_messages: a user Message and an assistant
\* Message (in_progress) are added to the chat
CreateQueueMessages(msgs, content) ==
    LET n == Cardinality(DOMAIN msgs)
    IN  [i \in 1..(n + 2) |->
           IF i <= n THEN msgs[i]
           ELSE IF i = n + 1 THEN Msg("user", "none", [text |-> content])
           ELSE Msg("assistant", IN_PROGRESS, EmptyContent)]

\* QueueInjector.check_and_inject, invited once after the publish of an
\* injection-safe event while the stream waits for the provider's next event:
\* empty queue -> false; else LPOP, create the two messages, publish
\* queue_injected, write the injection frame
CheckAndInject ==
    /\ UNCHANGED <<schedVars, extVars>>
    /\ invite_pending
    /\ mpc = "anext"
    /\ ~cancel_pending
    /\ invite_pending' = FALSE
    /\ IF queue = <<>>
       THEN UNCHANGED <<queue, messages, log, frames>>
       ELSE /\ queue' = Tail(queue)
            /\ messages' = CreateQueueMessages(messages, Head(queue).content)
            /\ log' = XAdd(log, "queue_injected", Head(queue).content)
            /\ frames' = Append(frames, Head(queue).content)
    /\ UNCHANGED <<mpc, events, fin_status, exc, outcome, final_content, provider_end,
                   assistant_message_id, wpc, was_cancelled, cancel_requested,
                   cancel_pending, cancel_calls, revoked, task_key,
                   checkpoint_requested, ppc, polls>>

\* ------------------------------------------------------- stream behaviours
StreamNext ==
    \/ \E e \in EventTypes : ProviderYield(e)
    \/ PublishEvent
    \/ ProviderStop
    \/ ProviderError
    \/ CancelAtAnext
    \/ CancelAtPublish
    \/ UpdateInterrupted
    \/ FinalizePublishComplete
    \/ FinalizeSave
    \/ Checkpoint
    \/ HandlerPublishError
    \/ HandlerUpdateFailed
    \/ HandlerSave
    \/ Cleanup
    \/ Revoke
    \/ WatcherDetect
    \/ WatcherCancelMain
    \/ TriggerContextUsage
    \/ PollerBroadcast
    \/ PollerCheck
    \/ CheckAndInject

Init == StreamInit /\ SchedIdle /\ ExtIdle

Next == StreamNext

\* one stream run with its watcher, the poller and the injector
Spec == Init /\ [][Next]_vars

\* the same, where a step of _finalize_stream may raise
FaultNext == StreamNext \/ FinalizeRaises

SpecFault == Init /\ [][FaultNext]_vars

\* ====================================================== outside interrupt
\* the main task is cancelled by something other than the monitor task (the
\* worker shuts down or terminates the task) while it is in its loop
ExternalCancel ==
    /\ UNCHANGED <<schedVars, extVars>>
    /\ mpc \in {"anext", "publish"}
    /\ ~cancel_pending
    /\ cancel_pending' = TRUE
    /\ UNCHANGED <<mpc, events, fin_status, exc, outcome, final_content, provider_end,
                   assistant_message_id, wpc, was_cancelled, cancel_requested,
                   cancel_calls, revoked, task_key, log, queue, messages,
                   checkpoint_requested, frames, invite_pending, ppc, polls>>

InterruptNext == StreamNext \/ ExternalCancel

\* one stream run whose main task may be cancelled from outside
SpecInterrupt == Init /\ [][InterruptNext]_vars

\* ========================================================== stream start
\* The run from before its start: the keys of the chat are as an earlier
\* run or a client left them, and the monitor task does not exist yet.

\* _prepare_stream, then process_stream up to its first await: the stream
\* key is deleted, the task key is set, the monitor task is created
PrepareStream ==
    /\ UNCHANGED <<schedVars, extVars>>
    /\ mpc = "prepare"
    /\ log' = <<>>
    /\ task_key' = TRUE
    /\ mpc' = "anext"
    /\ wpc' = "poll"
    /\ UNCHANGED <<events, fin_status, exc, outcome, final_content, provider_end,
                   assistant_message_id, was_cancelled, cancel_requested,
                   cancel_pending, cancel_calls, revoked, queue, messages,
                   checkpoint_requested, frames, invite_pending, ppc, polls>>

\* an entry an earlier run left in the log
StaleEntry == Entry("complete", NoPayload)

\* before the start: the revoked flag and the log of the chat are whatever
\* was left; no task key, no monitor task
StartInit ==
    /\ SchedIdle
    /\ ExtIdle
    /\ mpc = "prepare"
    /\ events = <<>>
    /\ fin_status = "none"
    /\ exc = "none"
    /\ outcome = "none"
    /\ final_content = "none"
    /\ provider_end = "none"
    /\ assistant_message_id = AssistantMessageId
    /\ wpc = "unborn"
    /\ was_cancelled = FALSE
    /\ cancel_requested = FALSE
    /\ cancel_pending = FALSE
    /\ cancel_calls = 0
    /\ revoked \in BOOLEAN
    /\ task_key = FALSE
    /\ log \in {<<>>, <<StaleEntry>>}
    /\ queue = <<>>
    /\ messages = [i \in {UserMessageId, AssistantMessageId} |->
                     IF i = UserMessageId
                     THEN Msg("user", "none", [text |-> "prompt"])
                     ELSE Msg("assistant", IN_PROGRESS, EmptyContent)]
    /\ checkpoint_requested = FALSE
    /\ frames = <<>>
    /\ invite_pending = FALSE
    /\ ppc = "idle"
    /\ polls = 0

StartNext == PrepareStream \/ StreamNext

\* one stream run from before its start
SpecStart == StartInit /\ [][StartNext]_vars

\* ============================================================= scheduler
\* TaskExecutionStatus
RUNNING == "RUNNING"
SUCCESS == "SUCCESS"
EXEC_FAILED == "FAILED"

Workers == {1, 2}

\* the rows check_duplicate_execution selects: this task's executions with
\* executed_at >= start_time - 2 minutes and status RUNNING or SUCCESS
MatchingExecutions(rows, start_time) ==
    {e \in rows : /\ e.executed_at >= start_time - DEDUPE_WINDOW_MINUTES
                  /\ e.status \in {RUNNING, SUCCESS}}

\* check_duplicate_execution: scalar_one_or_none() is not None; more than
\* one selected row makes scalar_one_or_none() raise MultipleResultsFound
check_duplicate_execution(rows, start_time) ==
    LET n == Cardinality(MatchingExecutions(rows, start_time))
    IN  IF n = 0 THEN "none" ELSE IF n = 1 THEN "duplicate" ELSE "raises"

\* a worker takes a dispatch of the task: run_scheduled_task starts, the
\* task and its owner load, start_time is now
Dispatch(w) ==
    /\ UNCHANGED <<streamVars, extVars>>
    /\ runs[w].pc = "idle"
    /\ dispatched < MaxDispatch
    /\ dispatched' = dispatched + 1
    /\ runs' = [runs EXCEPT ![w] = [pc |-> "check", start_time |-> clock, id |-> dispatched + 1]]
    /\ UNCHANGED <<clock, execs>>

\* run_scheduled_task step 2: the dedupe check.  A duplicate is rejected; an
\* error of the check is recorded as a FAILED TaskExecution
CheckDuplicate(w) ==
    /\ UNCHANGED <<streamVars, extVars>>
    /\ runs[w].pc = "check"
    /\ LET r == check_duplicate_execution(execs, runs[w].start_time)
       IN  /\ runs' = [runs EXCEPT ![w].pc = IF r = "none" THEN "insert"
                                               ELSE IF r = "duplicate" THEN "rejected"
                                               ELSE "failed"]
           /\ execs' = IF r = "raises"
                       THEN execs \cup {[id |-> runs[w].id,
                                         executed_at |-> runs[w].start_time,
                                         status |-> EXEC_FAILED]}
                       ELSE execs
    /\ UNCHANGED <<clock, dispatched>>

\* run_scheduled_task step 3: insert TaskExecution(RUNNING, executed_at =
\* start_time)
InsertRunning(w) ==
    /\ UNCHANGED <<streamVars, extVars>>
    /\ runs[w].pc = "insert"
    /\ execs' = execs \cup {[id |-> runs[w].id,
                              executed_at |-> runs[w].start_time,
                              status |-> RUNNING]}
    /\ runs' = [runs EXCEPT ![w].pc = "running"]
    /\ UNCHANGED <<clock, dispatched>>

\* complete_task_execution: the run's row becomes SUCCESS or FAILED
complete_task_execution(rows, id, status) ==
    {IF e.id = id THEN [e EXCEPT !.status = status] ELSE e : e \in rows}

\* run_scheduled_task steps 7 and 8: the stream ended; the execution is
\* completed as SUCCESS or FAILED
CompleteRun(w) ==
    /\ UNCHANGED <<streamVars, extVars>>
    /\ runs[w].pc = "running"
    /\ \E status \in {SUCCESS, EXEC_FAILED} :
          execs' = complete_task_execution(execs, runs[w].id, status)
    /\ runs' = [runs EXCEPT ![w].pc = "idle"]
    /\ UNCHANGED <<clock, dispatched>>

\* the worker is free again after a rejected or failed run
ReleaseWorker(w) ==
    /\ UNCHANGED <<streamVars, extVars>>
    /\ runs[w].pc \in {"rejected", "failed"}
    /\ runs' = [runs EXCEPT ![w].pc = "idle"]
    /\ UNCHANGED <<clock, execs, dispatched>>

\* a minute passes
Tick ==
    /\ UNCHANGED <<streamVars, extVars>>
    /\ clock < MaxClock
    /\ clock' = clock + 1
    /\ UNCHANGED <<execs, runs, dispatched>>

\* no run is between its dedupe check and its insert
NoRunInSetup == \A w \in Workers : runs[w].pc \notin {"check", "insert"}

\* a dispatch that arrives while no other run is in its setup
SerialDispatch(w) == NoRunInSetup /\ Dispatch(w)

SchedInit == StreamInit /\ SchedIdle /\ ExtIdle /\ assistant_message_id = AssistantMessageId /\ queue = <<>>

SchedNext ==
    \/ \E w \in Workers : Dispatch(w)
    \/ \E w \in Workers : CheckDuplicate(w)
    \/ \E w \in Workers : InsertRunning(w)
    \/ \E w \in Workers : CompleteRun(w)
    \/ \E w \in Workers : ReleaseWorker(w)
    \/ Tick

\* runs of one scheduled task on two workers, dispatched at any time
SpecSched == SchedInit /\ [][SchedNext]_vars

SerialNext ==
    \/ \E w \in Workers : SerialDispatch(w)
    \/ \E w \in Workers : CheckDuplicate(w)
    \/ \E w \in Workers : InsertRunning(w)
    \/ \E w \in Workers : CompleteRun(w)
    \/ \E w \in Workers : ReleaseWorker(w)
    \/ Tick

\* the same, where no dispatch arrives while another run is in its setup
SpecSchedSerial == SchedInit /\ [][SerialNext]_vars

\* ========================================================= recurrence runs
\* the reference times range over every day of 2026 .. MaxYear (2028 is a
\* leap year), at a few times of day
RecYears == 2026 .. MaxYear

FromDates ==
    {d \in [year : RecYears, month : 1..12, day : 1..31] :
        d.day <= monthrange(d.year, d.month)}

\* <<hour, minute, second, microsecond>> of the reference time
FromClocks == {<<0, 0, 0, 0>>, <<10, 0, 0, 0>>, <<12, 0, 0, 0>>, <<23, 59, 59, 500000>>}

FromTimes ==
    {[datetime(d.year, d.month, d.day, c[1], c[2], c[3]) EXCEPT !.microsecond = c[4]] :
        d \in FromDates, c \in FromClocks}

\* scheduled_time "0:0", "10:00:00" and "23:59:59"
ScheduledTimes == {<<0, 0>>, <<10, 0, 0>>, <<23, 59, 59>>}

\* recurrence_type with scheduled_day
Rules ==
    {[recurrence_type |-> r, scheduled_day |-> NoDay] : r \in {ONCE, DAILY, WEEKLY, MONTHLY}}
    \cup {[recurrence_type |-> WEEKLY, scheduled_day |-> w] : w \in 0..6}
    \cup {[recurrence_type |-> MONTHLY, scheduled_day |-> d] : d \in 1..31}

\* everything but the calculator
nonRecVars == <<streamVars, schedVars, taskVars, queueVars, beatVars, svcVars, runVars, pollVars, ttlVars>>

\* everything but the task service
nonTaskVars == <<streamVars, schedVars, recVars, queueVars, beatVars, svcVars, runVars, pollVars, ttlVars>>

StreamAtRest == StreamInit /\ assistant_message_id = AssistantMessageId /\ queue = <<>>

RecInit ==
    /\ StreamAtRest
    /\ SchedIdle
    /\ TasksIdle
    /\ QueueIdle
    /\ BeatIdle
    /\ SvcIdle
    /\ RunIdle
    /\ PollIdle
    /\ TtlIdle
    /\ \E rule \in Rules, st \in ScheduledTimes, ft \in FromTimes, ao \in BOOLEAN :
          rc_args = [recurrence_type |-> rule.recurrence_type,
                     scheduled_time |-> st,
                     scheduled_day |-> rule.scheduled_day,
                     from_time |-> ft,
                     allow_once |-> (ao /\ rule.recurrence_type = ONCE)]
    /\ rc_called = FALSE
    /\ rc_result = None

\* one call of calculate_next_datetime
CalculateNext ==
    /\ UNCHANGED nonRecVars
    /\ ~rc_called
    /\ rc_called' = TRUE
    /\ rc_result' = calculate_next_datetime(rc_args.recurrence_type, rc_args.scheduled_time,
                                            rc_args.scheduled_day, rc_args.from_time,
                                            rc_args.allow_once)
    /\ UNCHANGED rc_args

RecNext == CalculateNext

\* calls of the recurrence calculator on every bounded input
SpecRecurrence == RecInit /\ [][RecNext]_vars

\* ================================================= task service requests
\* Requests of one user, each on its own database session.  An action is
\* one database statement together with the local code that follows it up
\* to the next statement; a commit makes the session's changes visible.

\* the request ends: its session closes
EndRequest(c, op, id, result) ==
    reqs' = [reqs EXCEPT ![c] = [IdleRequest(result) EXCEPT !.op = op, !.task_id = id]]

\* the request goes on to its next statement
Proceed(c, pc, op, id, loaded, changed) ==
    reqs' = [reqs EXCEPT ![c] = [pc |-> pc, op |-> op, task_id |-> id, loaded |-> loaded,
                                 changed |-> changed, result |-> "none"]]

\* the rule stored in a row
RuleOf(row) == TaskRule(row.recurrence_type, row.scheduled_time, row.scheduled_day)

\* the rules a client submits
CreateRules == {TaskRule(DAILY, <<10, 0>>, NoDay), TaskRule(WEEKLY, <<10, 0>>, NoDay)}

\* the ids a request may name: the first two tasks that are not settled
TargetIds == {SettledTasks + 1, SettledTasks + 2}

\* a disable that also clears next_execution
DisableRow_ClearsNext(row) ==
    [row EXCEPT !.enabled = FALSE, !.status = PAUSED, !.next_execution = None]

\* task.enabled = False; task.status = PAUSED
DisableRow(row) == [row EXCEPT !.enabled = FALSE, !.status = PAUSED]

\* _enable_task after its validation
EnableRow(row, recompute, at) ==
    [row EXCEPT !.enabled = TRUE, !.status = ACTIVE, !.last_error = "none",
                !.next_execution = IF row.next_execution = None \/ recompute
                                   THEN calculate_initial_next_execution(RuleOf(row), at)
                                   ELSE row.next_execution]

\* create_task up to its commit: the count query, the recurrence check and
\* the construction of the task
CreateValidate(c, rule) ==
    /\ UNCHANGED nonTaskVars
    /\ reqs[c].pc = "idle"
    /\ served < MaxRequests
    /\ served' = served + 1
    /\ FreshId(tasks) # 0
    /\ IF ~validate_task_limit(tasks, TheUser, 0)
       THEN EndRequest(c, "create", 0, "cap")
       ELSE IF ~validate_recurrence_constraints(rule.recurrence_type, rule.scheduled_day)
       THEN EndRequest(c, "create", 0, "invalid")
       ELSE Proceed(c, "commit", "create", 0, NoRow(ABSENT),
                    TaskRow(TRUE, ACTIVE, "none",
                            calculate_initial_next_execution(rule, tnow), rule))
    /\ UNCHANGED <<tasks, tnow>>

\* create_task: db.add(task); commit
CommitCreate(c) ==
    /\ UNCHANGED nonTaskVars
    /\ reqs[c].pc = "commit"
    /\ reqs[c].op = "create"
    /\ FreshId(tasks) # 0
    /\ tasks' = [tasks EXCEPT ![FreshId(tasks)] = reqs[c].changed]
    /\ EndRequest(c, "create", FreshId(tasks), "ok")
    /\ UNCHANGED <<tnow, served>>

\* toggle_task, update_task(enabled = ...) and delete_task up to their next
\* statement: _get_user_task, then the local code
LoadTask(c, op, id) ==
    /\ UNCHANGED nonTaskVars
    /\ reqs[c].pc = "idle"
    /\ served < MaxRequests
    /\ served' = served + 1
    /\ LET row == tasks[id]
       IN  IF ~RowExists(row)
           THEN EndRequest(c, op, id, "not_found")
           ELSE IF op = "delete"
           THEN Proceed(c, "commit", op, id, row, row)
           ELSE IF op = "update_disable" \/ (op = "toggle" /\ row.enabled)
           THEN Proceed(c, "commit", op, id, row, DisableRow(row))
           ELSE IF op = "update_enable" /\ row.enabled
           THEN Proceed(c, "commit", op, id, row, EnableRow(row, FALSE, tnow))
           ELSE IF ~validate_recurrence_constraints(row.recurrence_type, row.scheduled_day)
           THEN EndRequest(c, op, id, "invalid")
           ELSE Proceed(c, "validate", op, id, row, row)
    /\ UNCHANGED <<tasks, tnow>>

\* _enable_task: the count query without the task itself, then the changes
ValidateEnable(c) ==
    /\ UNCHANGED nonTaskVars
    /\ reqs[c].pc = "validate"
    /\ LET r == reqs[c]
       IN  IF ~validate_task_limit(tasks, TheUser, r.task_id)
           THEN EndRequest(c, r.op, r.task_id, "cap")
           ELSE Proceed(c, "commit", r.op, r.task_id, r.loaded,
                        EnableRow(r.loaded, r.op = "toggle", tnow))
    /\ UNCHANGED <<tasks, tnow, served>>

\* toggle_task and update_task: db.add(task); commit.  The UPDATE of a row
\* that is gone raises StaleDataError
CommitUpdate(c) ==
    /\ UNCHANGED nonTaskVars
    /\ reqs[c].pc = "commit"
    /\ reqs[c].op \in {"toggle", "update_enable", "update_disable"}
    /\ LET r == reqs[c]
       IN  IF RowExists(tasks[r.task_id])
           THEN /\ tasks' = [tasks EXCEPT ![r.task_id] = Flush(@, r.loaded, r.changed)]
                /\ EndRequest(c, r.op, r.task_id, "ok")
           ELSE /\ tasks' = tasks
                /\ EndRequest(c, r.op, r.task_id, "stale")
    /\ UNCHANGED <<tnow, served>>

\* delete_task: db.delete(task); commit
CommitDelete(c) ==
    /\ UNCHANGED nonTaskVars
    /\ reqs[c].pc = "commit"
    /\ reqs[c].op = "delete"
    /\ tasks' = [tasks EXCEPT ![reqs[c].task_id] = NoRow(DELETED)]
    /\ EndRequest(c, "delete", reqs[c].task_id, "ok")
    /\ UNCHANGED <<tnow, served>>

\* the instants datetime.now() returns during the requests
TaskInstants == {datetime(2027, 1, 1, 9, 0, 0), datetime(2027, 1, 1, 11, 0, 0)}

\* time passes
TaskTick ==
    /\ UNCHANGED nonTaskVars
    /\ \E t \in TaskInstants : DtLess(tnow, t) /\ tnow' = t
    /\ UNCHANGED <<tasks, reqs, served>>

TaskInit == StreamAtRest /\ SchedIdle /\ ExtIdle

TaskNext ==
    \/ \E c \in Clients, rule \in CreateRules : CreateValidate(c, rule)
    \/ \E c \in Clients : CommitCreate(c)
    \/ \E c \in Clients, id \in TargetIds,
          op \in {"toggle", "update_enable", "update_disable", "delete"} : LoadTask(c, op, id)
    \/ \E c \in Clients : ValidateEnable(c)
    \/ \E c \in Clients : CommitUpdate(c)
    \/ \E c \in Clients : CommitDelete(c)
    \/ TaskTick

\* concurrent requests of one user to the scheduler service
SpecTasks == TaskInit /\ [][TaskNext]_vars

\* ==================================================== queue service calls
\* Calls of the QueueService by two API clients and invitations of the queue
\* injector, on the queue of one chat.  An action is one Redis command (or
\* one awaited step of the injector) with the local code that follows it.

QClients == {1, 2}

\* invitations of the injector that may be in progress together
Injectors == {1, 2}

\* the stream's state the queue service and the injector leave alone
streamRest == <<mpc, events, fin_status, exc, outcome, final_content, provider_end,
                assistant_message_id, wpc, was_cancelled, cancel_requested,
                cancel_pending, cancel_calls, revoked, task_key,
                checkpoint_requested, invite_pending, ppc, polls>>

\* everything but the queue service and the injector's invitations
nonQueueVars == <<schedVars, recVars, taskVars, beatVars, svcVars, runVars, pollVars, ttlVars>>

\* the call returns or raises
QReturn(c, op, result) ==
    qreqs' = [qreqs EXCEPT ![c] = [pc |-> "idle", op |-> op, current_len |-> 0,
                                   raw |-> NoMessage, result |-> result]]

\* add_message: LLEN and the test of the length
AddLlen(c) ==
    /\ UNCHANGED <<nonQueueVars, streamRest, messages, log, frames>>
    /\ qreqs[c].pc = "idle"
    /\ pushed < MaxAdds
    /\ IF QueueIsFull(LLen(queue))
       THEN QReturn(c, "add", "full")
       ELSE qreqs' = [qreqs EXCEPT ![c] = [pc |-> "rpush", op |-> "add",
                                           current_len |-> LLen(queue),
                                           raw |-> NoMessage, result |-> "none"]]
    /\ UNCHANGED <<queue, inj, pushed>>

\* add_message: RPUSH of the new message (and EXPIRE); position is the
\* length read before
AddRpush(c) ==
    /\ UNCHANGED <<nonQueueVars, streamRest, messages, log, frames>>
    /\ qreqs[c].pc = "rpush"
    /\ pushed < MaxAdds
    /\ pushed' = pushed + 1
    /\ queue' = RPush(queue, QueuedMessage(pushed + 1))
    /\ QReturn(c, "add", "added")
    /\ UNCHANGED inj

\* remove_message: LRANGE and the search for the id
RemoveLrange(c, id) ==
    /\ UNCHANGED <<nonQueueVars, streamRest, messages, log, frames>>
    /\ qreqs[c].pc = "idle"
    /\ LET raw == FindById(queue, id)
       IN  IF raw = NoMessage
           THEN QReturn(c, "none", "none")
           ELSE qreqs' = [qreqs EXCEPT ![c] = [pc |-> "lrem", op |-> "remove",
                                               current_len |-> 0, raw |-> raw,
                                               result |-> "none"]]
    /\ UNCHANGED <<queue, inj, pushed>>

\* remove_message: LREM of the entry found
RemoveLrem(c) ==
    /\ UNCHANGED <<nonQueueVars, streamRest, messages, log, frames>>
    /\ qreqs[c].pc = "lrem"
    /\ queue' = LRem(queue, qreqs[c].raw)
    /\ QReturn(c, "none", "none")
    /\ UNCHANGED <<inj, pushed>>

\* pop_next_message called by a client: LPOP
PopNext(c) ==
    /\ UNCHANGED <<nonQueueVars, streamRest, messages, log, frames>>
    /\ qreqs[c].pc = "idle"
    /\ queue # <<>>
    /\ queue' = LPop(queue)
    /\ QReturn(c, "none", "none")
    /\ UNCHANGED <<inj, pushed>>

\* the invitation returns
InjReturn(i) ==
    inj' = [inj EXCEPT ![i] = [pc |-> "idle", msg |-> NoMessage, base |-> 0]]

\* the invitation goes on to its next awaited step
InjStep(i, pc, msg) ==
    inj' = [inj EXCEPT ![i] = [pc |-> pc, msg |-> msg, base |-> inj[i].base]]

\* check_and_inject is invited: has_messages (LLEN)
InjHasMessages(i) ==
    /\ UNCHANGED <<nonQueueVars, streamRest, messages, log, frames>>
    /\ inj[i].pc = "idle"
    /\ task_key
    /\ IF LLen(queue) > 0
       THEN inj' = [inj EXCEPT ![i] = [pc |-> "pop", msg |-> NoMessage,
                                       base |-> Len(frames)]]
       ELSE InjReturn(i)
    /\ UNCHANGED <<queue, qreqs, pushed>>

\* check_and_inject: pop_next_message (LPOP)
InjPop(i) ==
    /\ UNCHANGED <<nonQueueVars, streamRest, messages, log, frames>>
    /\ inj[i].pc = "pop"
    /\ IF queue = <<>>
       THEN InjReturn(i)
       ELSE InjStep(i, "create", Head(queue))
    /\ queue' = LPop(queue)
    /\ UNCHANGED <<qreqs, pushed>>

\* check_and_inject: _create_queue_messages
InjCreateMessages(i) ==
    /\ UNCHANGED <<nonQueueVars, streamRest, queue, log, frames>>
    /\ inj[i].pc = "create"
    /\ messages' = CreateQueueMessages(messages, inj[i].msg.content)
    /\ InjStep(i, "publish", inj[i].msg)
    /\ UNCHANGED <<qreqs, pushed>>

\* check_and_inject: _publish_injection_event, then the read of the
\* session id, which changes nothing
InjPublish(i) ==
    /\ UNCHANGED <<nonQueueVars, streamRest, queue, messages, frames>>
    /\ inj[i].pc = "publish"
    /\ log' = XAdd(log, "queue_injected", inj[i].msg.content)
    /\ InjStep(i, "write", inj[i].msg)
    /\ UNCHANGED <<qreqs, pushed>>

\* check_and_inject: transport.write of the injection frame; returns True
InjWrite(i) ==
    /\ UNCHANGED <<nonQueueVars, streamRest, queue, messages, log>>
    /\ inj[i].pc = "write"
    /\ frames' = Append(frames, inj[i].msg.content)
    /\ InjReturn(i)
    /\ UNCHANGED <<qreqs, pushed>>

QueueInit == StreamAtRest /\ SchedIdle /\ ExtIdle

QueueNext ==
    \/ \E c \in QClients : AddLlen(c)
    \/ \E c \in QClients : AddRpush(c)
    \/ \E c \in QClients, id \in 1..MaxAdds : RemoveLrange(c, id)
    \/ \E c \in QClients : RemoveLrem(c)
    \/ \E c \in QClients : PopNext(c)
    \/ \E i \in Injectors : InjHasMessages(i)
    \/ \E i \in Injectors : InjPop(i)
    \/ \E i \in Injectors : InjCreateMessages(i)
    \/ \E i \in Injectors : InjPublish(i)
    \/ \E i \in Injectors : InjWrite(i)

\* the queue of one chat under concurrent clients and injector invitations
SpecQueue == QueueInit /\ [][QueueNext]_vars

\* ============================================ scheduler service, serially
\* Requests served one after the other: an action is a whole handler, from
\* its first query to its commit or to the exception that ends it (the
\* session is then rolled back).  An operator gives the rows after the
\* handler and how it ended.
Outcome(rows, result) == [rows |-> rows, result |-> result]

\* _get_user_task without the condition on user_id
get_user_task_AnyOwner(rows, task_id, user_id) ==
    IF task_id \in DOMAIN rows /\ RowExists(rows[task_id]) THEN task_id ELSE 0

\* _get_user_task: the id of the row, or 0 for None
get_user_task(rows, task_id, user_id) ==
    IF /\ task_id \in DOMAIN rows
       /\ RowExists(rows[task_id])
       /\ rows[task_id].user_id = user_id
    THEN task_id
    ELSE 0

\* _enable_task that recomputes next_execution at every call
enable_task_AlwaysRecompute(rows, row, user_id, task_id, schedule_changed, skip_validation, now) ==
    IF ~skip_validation
       /\ ~validate_recurrence_constraints(row.recurrence_type, row.scheduled_day)
    THEN [result |-> "invalid", row |-> row]
    ELSE IF ~skip_validation /\ ~validate_task_limit(rows, user_id, task_id)
    THEN [result |-> "cap", row |-> row]
    ELSE [result |-> "ok", row |-> EnableRow(row, TRUE, now)]

\* _enable_task: how it ends and the task it leaves
enable_task(rows, row, user_id, task_id, schedule_changed, skip_validation, now) ==
    IF ~skip_validation
       /\ ~validate_recurrence_constraints(row.recurrence_type, row.scheduled_day)
    THEN [result |-> "invalid", row |-> row]
    ELSE IF ~skip_validation /\ ~validate_task_limit(rows, user_id, task_id)
    THEN [result |-> "cap", row |-> row]
    ELSE [result |-> "ok", row |-> EnableRow(row, schedule_changed, now)]

\* create_task that stores the task before it checks the recurrence
create_task_NoValidation(rows, user_id, data, now) ==
    LET rule == TaskRule(data.recurrence_type, data.scheduled_time, data.scheduled_day)
        next_execution == calculate_initial_next_execution(rule, now)
    IN  IF ~validate_task_limit(rows, user_id, 0)
        THEN Outcome(rows, "cap")
        ELSE Outcome([rows EXCEPT ![FreshId(rows)] =
                          [TaskRow(TRUE, ACTIVE, "none", next_execution, rule)
                               EXCEPT !.user_id = user_id]], "ok")

\* create_task
create_task(rows, user_id, data, now) ==
    LET rule == TaskRule(data.recurrence_type, data.scheduled_time, data.scheduled_day)
        next_execution == calculate_initial_next_execution(rule, now)
    IN  IF ~validate_task_limit(rows, user_id, 0)
        THEN Outcome(rows, "cap")
        ELSE IF ~validate_recurrence_constraints(rule.recurrence_type, rule.scheduled_day)
        THEN Outcome(rows, "invalid")
        ELSE IF next_execution = SchedulerException
        THEN Outcome(rows, "invalid")
        ELSE Outcome([rows EXCEPT ![FreshId(rows)] =
                          [TaskRow(TRUE, ACTIVE, "none", next_execution, rule)
                               EXCEPT !.user_id = user_id]], "ok")

\* update_task: the setattr loop
SetFields(row, data) ==
    [row EXCEPT
        !.recurrence_type = IF data.recurrence_type # Unset THEN data.recurrence_type ELSE @,
        !.scheduled_time = IF data.scheduled_time # UnsetTime THEN data.scheduled_time ELSE @,
        !.scheduled_day = IF data.scheduled_day # UnsetDay THEN data.scheduled_day ELSE @]

\* update_task: recurrence_changed or time_changed or day_changed
ScheduleChanged(data) ==
    \/ data.recurrence_type # Unset
    \/ data.scheduled_time # UnsetTime
    \/ data.scheduled_day # UnsetDay

\* update_task from the setattr loop to the task it commits
UpdatedTask(rows, row, user_id, task_id, data, now) ==
    LET set == SetFields(row, data)
        changed == ScheduleChanged(data)
        next_execution == calculate_initial_next_execution(RuleOf(set), now)
        task == IF changed THEN [set EXCEPT !.next_execution = next_execution] ELSE set
    IN  IF changed /\ ~validate_recurrence_constraints(set.recurrence_type, set.scheduled_day)
        THEN [result |-> "invalid", row |-> row]
        ELSE IF changed /\ next_execution = SchedulerException
        THEN [result |-> "invalid", row |-> row]
        ELSE IF data.enabled = "true"
        THEN enable_task(rows, task, user_id, task_id, changed, task.enabled, now)
        ELSE IF data.enabled = "false"
        THEN [result |-> "ok", row |-> DisableRow(task)]
        ELSE [result |-> "ok", row |-> task]

\* update_task
update_task(rows, user_id, task_id, data, now) ==
    LET id == get_user_task(rows, task_id, user_id)
        out == UpdatedTask(rows, rows[id], user_id, id, data, now)
    IN  IF id = 0 THEN Outcome(rows, "not_found")
        ELSE IF out.result # "ok" THEN Outcome(rows, out.result)
        ELSE IF out.row.next_execution = SchedulerException THEN Outcome(rows, "invalid")
        ELSE Outcome([rows EXCEPT ![id] = out.row], "ok")

\* toggle_task that enables without recomputing a stored next_execution
toggle_task_KeepsNext(rows, user_id, task_id, now) ==
    LET id == get_user_task(rows, task_id, user_id)
        out == IF rows[id].enabled
               THEN [result |-> "ok", row |-> DisableRow(rows[id])]
               ELSE enable_task(rows, rows[id], user_id, id, FALSE, FALSE, now)
    IN  IF id = 0 THEN Outcome(rows, "not_found")
        ELSE IF out.result # "ok" THEN Outcome(rows, out.result)
        ELSE Outcome([rows EXCEPT ![id] = out.row], "ok")

\* toggle_task
toggle_task(rows, user_id, task_id, now) ==
    LET id == get_user_task(rows, task_id, user_id)
        out == IF rows[id].enabled
               THEN [result |-> "ok", row |-> DisableRow(rows[id])]
               ELSE enable_task(rows, rows[id], user_id, id, TRUE, FALSE, now)
    IN  IF id = 0 THEN Outcome(rows, "not_found")
        ELSE IF out.result # "ok" THEN Outcome(rows, out.result)
        ELSE Outcome([rows EXCEPT ![id] = out.row], "ok")

\* delete_task
delete_task(rows, user_id, task_id) ==
    LET id == get_user_task(rows, task_id, user_id)
    IN  IF id = 0 THEN Outcome(rows, "not_found")
        ELSE Outcome([rows EXCEPT ![id] = NoRow(DELETED)], "ok")

\* get_task and get_execution_history: the lookup they begin with
read_task(rows, user_id, task_id) ==
    IF get_user_task(rows, task_id, user_id) = 0
    THEN Outcome(rows, "not_found")
    ELSE Outcome(rows, "ok")

\* the request is served: its outcome is committed and recorded
Served(op, user_id, task_id, data, out) ==
    /\ ncalls < MaxCalls
    /\ ncalls' = ncalls + 1
    /\ tasks' = out.rows
    /\ call' = Call(op, user_id, task_id, data, out.result)

nonSvcVars == <<streamVars, schedVars, recVars, queueVars, beatVars, runVars, pollVars, ttlVars, reqs, served>>

CreateTask(u, data) ==
    /\ UNCHANGED nonSvcVars
    /\ FreshId(tasks) # 0
    /\ Served("create", u, 0, data, create_task(tasks, u, data, tnow))
    /\ UNCHANGED tnow

UpdateTask(u, id, data) ==
    /\ UNCHANGED nonSvcVars
    /\ Served("update", u, id, data, update_task(tasks, u, id, data, tnow))
    /\ UNCHANGED tnow

ToggleTask(u, id) ==
    /\ UNCHANGED nonSvcVars
    /\ Served("toggle", u, id, NoData, toggle_task(tasks, u, id, tnow))
    /\ UNCHANGED tnow

DeleteTask(u, id) ==
    /\ UNCHANGED nonSvcVars
    /\ Served("delete", u, id, NoData, delete_task(tasks, u, id))
    /\ UNCHANGED tnow

ReadTask(u, id, op) ==
    /\ UNCHANGED nonSvcVars
    /\ Served(op, u, id, NoData, read_task(tasks, u, id))
    /\ UNCHANGED tnow

\* the instants datetime.now() returns while the requests are served
SvcInstants == {datetime(2026, 3, 10, 9, 30, 0), datetime(2026, 3, 11, 9, 0, 0)}

\* time passes between two requests
SvcTick ==
    /\ UNCHANGED nonSvcVars
    /\ \E t \in SvcInstants : DtLess(tnow, t) /\ tnow' = t
    /\ UNCHANGED <<tasks, call, ncalls>>

\* the ids of the table: four tasks with a history, SettledTasks further
\* tasks of the user, and two ids to spare
SvcIds == 1 .. (SettledTasks + 6)

\* an id no row has
MissingId == SettledTasks + 6

\* a task with executions behind it
WithHistory(row, execution_count, failure_count, last_execution) ==
    [row EXCEPT !.execution_count = execution_count, !.failure_count = failure_count,
                !.last_execution = last_execution]

\* the table before the requests: the user's daily task (enabled), their
\* completed one-time task, their weekly task paused after a failure with a
\* next_execution long past, a monthly task of another user; with `settled`
\* the user has SettledTasks more enabled tasks
SvcTable(settled) ==
    [i \in SvcIds |->
        IF i = 1
        THEN WithHistory(TaskRow(TRUE, ACTIVE, "none", datetime(2026, 3, 11, 9, 0, 0),
                                 TaskRule(DAILY, <<9, 0, 0>>, NoDay)),
                         2, 1, datetime(2026, 3, 10, 9, 0, 0))
        ELSE IF i = 2
        THEN WithHistory(TaskRow(FALSE, TASK_COMPLETED, "none", None,
                                 TaskRule(ONCE, <<9, 0, 0>>, NoDay)),
                         1, 0, datetime(2026, 3, 9, 9, 0, 0))
        ELSE IF i = 3
        THEN WithHistory(TaskRow(FALSE, PAUSED, "boom", datetime(2026, 3, 3, 9, 0, 30),
                                 TaskRule(WEEKLY, <<9, 0, 30>>, 1)),
                         0, 1, None)
        ELSE IF i = 4
        THEN [TaskRow(TRUE, ACTIVE, "none", datetime(2026, 3, 31, 10, 0, 0),
                      TaskRule(MONTHLY, <<10, 0>>, 31)) EXCEPT !.user_id = OtherUser]
        ELSE IF settled /\ i <= SettledTasks + 4
        THEN TaskRow(TRUE, ACTIVE, "none", datetime(2026, 3, 11, 8, 0, 0),
                     TaskRule(DAILY, <<8, 0>>, NoDay))
        ELSE NoRow(ABSENT)]

\* the bodies of create_task requests: one valid rule of each type, and
\* weekly and monthly rules whose scheduled_day is missing or out of range
CreateData ==
    {TaskData(ONCE, <<9, 0, 0>>, NoDay, Unset),
     TaskData(DAILY, <<9, 0, 0>>, NoDay, Unset),
     TaskData(WEEKLY, <<9, 0, 0>>, 1, Unset),
     TaskData(WEEKLY, <<9, 0, 0>>, NoDay, Unset),
     TaskData(WEEKLY, <<9, 0, 0>>, 7, Unset),
     TaskData(MONTHLY, <<10, 0>>, 31, Unset),
     TaskData(MONTHLY, <<10, 0>>, 0, Unset)}

\* the bodies of update_task requests
UpdateData ==
    {NoData,
     TaskData(Unset, UnsetTime, UnsetDay, "true"),
     TaskData(Unset, UnsetTime, UnsetDay, "false"),
     TaskData(WEEKLY, UnsetTime, UnsetDay, Unset),
     TaskData(Unset, UnsetTime, 31, Unset),
     TaskData(Unset, UnsetTime, NoDay, Unset),
     TaskData(Unset, <<10, 0, 0>>, UnsetDay, "true"),
     TaskData(MONTHLY, UnsetTime, 0, Unset),
     TaskData(MONTHLY, UnsetTime, 31, "true")}

Users == {TheUser, OtherUser}

\* what each user asks for: the user works on their tasks and on a missing
\* one, the other user on their own task and on the user's daily task
CreateDataOf(u) == IF u = TheUser THEN CreateData ELSE {TaskData(DAILY, <<9, 0, 0>>, NoDay, Unset)}
UpdateDataOf(u) == IF u = TheUser THEN UpdateData ELSE {TaskData(Unset, UnsetTime, UnsetDay, "false")}
TargetsOf(u) == IF u = TheUser THEN {1, 2, 3, MissingId} ELSE {1, 4}
DeleteTargetsOf(u) == IF u = TheUser THEN {1, 3} ELSE {1}
ReadTargetsOf(u) == IF u = TheUser THEN {1, MissingId} ELSE {1}

SvcInit ==
    /\ StreamAtRest
    /\ SchedIdle
    /\ RecIdle
    /\ QueueIdle
    /\ BeatIdle
    /\ SvcIdle
    /\ RunIdle
    /\ PollIdle
    /\ TtlIdle
    /\ reqs = [c \in Clients |-> IdleRequest("none")]
    /\ served = 0
    /\ tnow = datetime(2026, 3, 10, 9, 30, 0)
    /\ \E settled \in BOOLEAN : tasks = SvcTable(settled)

SvcNext ==
    \/ \E u \in Users : \E data \in CreateDataOf(u) : CreateTask(u, data)
    \/ \E u \in Users : \E id \in TargetsOf(u), data \in UpdateDataOf(u) :
          UpdateTask(u, id, data)
    \/ \E u \in Users : \E id \in TargetsOf(u) : ToggleTask(u, id)
    \/ \E u \in Users : \E id \in DeleteTargetsOf(u) : DeleteTask(u, id)
    \/ \E u \in Users : \E id \in ReadTargetsOf(u) :
          \E op \in {"get_task", "get_execution_history"} : ReadTask(u, id, op)
    \/ SvcTick

\* requests to the scheduler service, one at a time
SpecService == SvcInit /\ [][SvcNext]_vars


\* ================================================ scheduler beat and runs
\* check_due_tasks runs in one session from its query to its commit; the
\* runs it triggers are taken up by a worker one at a time.  The runs of
\* the tasks in FollowedIds are followed to update_task_after_execution;
\* the user may toggle or re-enable their one-time task meanwhile.
nonBeatVars == <<streamVars, schedVars, recVars, queueVars, runVars, pollVars, ttlVars, reqs, served>>

\* check_due_tasks
CheckDue ==
    /\ UNCHANGED nonBeatVars
    /\ checks < MaxChecks
    /\ checks' = checks + 1
    /\ \E S \in LimitedSets(tasks, DueIds(tasks, tnow), DUE_BATCH_LIMIT) :
          LET after == [i \in DOMAIN tasks |->
                           IF i \in S THEN AfterDue(tasks[i], tnow) ELSE tasks[i]]
          IN  IF \E i \in S : after[i].next_execution = SchedulerException
              THEN UNCHANGED <<tasks, batch, triggered>>
              ELSE /\ tasks' = after
                   /\ batch' = OrderByNextExecution(tasks, S)
                   /\ triggered' = [i \in FollowedIds |->
                                       triggered[i] + IF i \in S THEN 1 ELSE 0]
    /\ UNCHANGED <<tnow, drun, svcVars>>

\* run_scheduled_task begins: start_time = now
RunStart(i) ==
    /\ UNCHANGED nonBeatVars
    /\ drun.pc = "idle"
    /\ triggered[i] > 0
    /\ triggered' = [triggered EXCEPT ![i] = @ - 1]
    /\ drun' = [pc |-> "running", task_id |-> i, start_time |-> tnow, success |-> FALSE]
    /\ UNCHANGED <<tasks, tnow, batch, checks, svcVars>>

\* the run ends: update_task_after_execution and the commit
RunFinish(success) ==
    /\ UNCHANGED nonBeatVars
    /\ drun.pc = "running"
    /\ drun' = [drun EXCEPT !.pc = "idle", !.success = success]
    /\ tasks' = IF RowExists(tasks[drun.task_id])
                THEN [tasks EXCEPT ![drun.task_id] =
                         update_task_after_execution(@, drun.start_time, success, "boom")]
                ELSE tasks
    /\ UNCHANGED <<tnow, batch, checks, triggered, svcVars>>

\* the instants datetime.now() returns
BeatInstants ==
    {datetime(2026, 3, 10, 9, 0, 0), datetime(2026, 3, 10, 9, 0, 30),
     datetime(2026, 3, 11, 9, 0, 0)}

\* time passes
BeatTick ==
    /\ UNCHANGED nonBeatVars
    /\ \E t \in BeatInstants : DtLess(tnow, t) /\ tnow' = t
    /\ UNCHANGED <<tasks, beatVars, svcVars>>

\* the user toggles their one-time task
UserToggle ==
    /\ ToggleTask(TheUser, 2)
    /\ UNCHANGED beatVars

\* the user sets enabled = true on their one-time task
UserEnable ==
    /\ UpdateTask(TheUser, 2, TaskData(Unset, UnsetTime, UnsetDay, "true"))
    /\ UNCHANGED beatVars

\* the owner of a task of many users
OwnerOf(i) == OtherUser + 1 + (i \div MAX_TASKS_PER_USER)

\* the ids of the table: the four followed tasks and one less than
\* DUE_BATCH_LIMIT tasks of other users
BeatIds == 1 .. (DUE_BATCH_LIMIT + 3)

\* the table before the beat: the user's daily and one-time task due at
\* 09:00:00, their weekly task due at 09:00:30, their paused task with a
\* next_execution in the past; with `crowded` the tasks of the other users
\* are enabled and due since 08:00, else paused
BeatTable(crowded) ==
    [i \in BeatIds |->
        IF i = 1
        THEN TaskRow(TRUE, ACTIVE, "none", datetime(2026, 3, 10, 9, 0, 0),
                     TaskRule(DAILY, <<9, 0, 0>>, NoDay))
        ELSE IF i = 2
        THEN TaskRow(TRUE, ACTIVE, "none", datetime(2026, 3, 10, 9, 0, 0),
                     TaskRule(ONCE, <<9, 0, 0>>, NoDay))
        ELSE IF i = 3
        THEN TaskRow(TRUE, ACTIVE, "none", datetime(2026, 3, 10, 9, 0, 30),
                     TaskRule(WEEKLY, <<9, 0, 30>>, 1))
        ELSE IF i = 4
        THEN TaskRow(FALSE, PAUSED, "none", datetime(2026, 3, 10, 8, 0, 0),
                     TaskRule(MONTHLY, <<8, 0>>, 10))
        ELSE [TaskRow(crowded, IF crowded THEN ACTIVE ELSE PAUSED, "none",
                      datetime(2026, 3, 10, 8, 0, 0), TaskRule(DAILY, <<8, 0>>, NoDay))
                 EXCEPT !.user_id = OwnerOf(i)]]

BeatInit ==
    /\ StreamAtRest
    /\ SchedIdle
    /\ RecIdle
    /\ QueueIdle
    /\ BeatIdle
    /\ SvcIdle
    /\ RunIdle
    /\ PollIdle
    /\ TtlIdle
    /\ reqs = [c \in Clients |-> IdleRequest("none")]
    /\ served = 0
    /\ tnow = datetime(2026, 3, 10, 9, 0, 0)
    /\ \E crowded \in BOOLEAN : tasks = BeatTable(crowded)

BeatNext ==
    \/ CheckDue
    \/ \E i \in FollowedIds : RunStart(i)
    \/ \E success \in BOOLEAN : RunFinish(success)
    \/ BeatTick
    \/ UserToggle
    \/ UserEnable

\* the beat, the runs it triggers and the user's re-enabling
SpecDue == BeatInit /\ [][BeatNext]_vars

\* ================================================ concurrent update_task
\* Two update_task requests of the user at once, each on its own database
\* session: the request loads the task, sets the fields of its body on the
\* loaded object and validates that object; the commit sends an UPDATE of
\* the attributes the request changed.

\* the table before the requests: that of the service, where the user's
\* first task is a monthly task on day 5
UpdTable ==
    [SvcTable(FALSE) EXCEPT ![1] = TaskRow(TRUE, ACTIVE, "none", datetime(2026, 4, 5, 10, 0, 0),
                                           TaskRule(MONTHLY, <<10, 0>>, 5))]

\* the bodies of the requests; none enables the task, so that a request has
\* two statements: the load and the commit
UpdBodies ==
    {TaskData(WEEKLY, UnsetTime, UnsetDay, Unset),
     TaskData(MONTHLY, UnsetTime, UnsetDay, Unset),
     TaskData(Unset, UnsetTime, 31, Unset),
     TaskData(Unset, UnsetTime, 5, "false"),
     TaskData(WEEKLY, UnsetTime, 7, Unset)}

\* the tasks the requests name: the monthly task, the weekly task, no task
UpdTargets == {1, 3, MissingId}

\* update_task up to its commit: _get_user_task, the setattr loop, the
\* validation and the new next_execution
UpdateLoad(c, id, data) ==
    /\ UNCHANGED nonTaskVars
    /\ reqs[c].pc = "idle"
    /\ served < MaxRequests
    /\ served' = served + 1
    /\ LET tid == get_user_task(tasks, id, TheUser)
           out == UpdatedTask(tasks, tasks[tid], TheUser, tid, data, tnow)
       IN  IF tid = 0
           THEN EndRequest(c, "update", id, "not_found")
           ELSE IF out.result # "ok"
           THEN EndRequest(c, "update", id, out.result)
           ELSE IF out.row.next_execution = SchedulerException
           THEN EndRequest(c, "update", id, "invalid")
           ELSE Proceed(c, "commit", "update", id, tasks[tid], out.row)
    /\ UNCHANGED <<tasks, tnow>>

\* update_task: db.add(task); commit
UpdateCommit(c) ==
    /\ UNCHANGED nonTaskVars
    /\ reqs[c].pc = "commit"
    /\ reqs[c].op = "update"
    /\ LET r == reqs[c]
       IN  /\ tasks' = [tasks EXCEPT ![r.task_id] = Flush(@, r.loaded, r.changed)]
           /\ EndRequest(c, "update", r.task_id, "ok")
    /\ UNCHANGED <<tnow, served>>

UpdInit ==
    /\ StreamAtRest
    /\ SchedIdle
    /\ RecIdle
    /\ QueueIdle
    /\ BeatIdle
    /\ SvcIdle
    /\ RunIdle
    /\ PollIdle
    /\ TtlIdle
    /\ reqs = [c \in Clients |-> IdleRequest("none")]
    /\ served = 0
    /\ tnow = datetime(2026, 3, 10, 9, 30, 0)
    /\ tasks = UpdTable

UpdNext ==
    \/ \E c \in Clients, id \in UpdTargets, data \in UpdBodies : UpdateLoad(c, id, data)
    \/ \E c \in Clients : UpdateCommit(c)

\* concurrent update_task requests of one user
SpecUpdates == UpdInit /\ [][UpdNext]_vars

\* ===================================== scheduled run with key validation
\* One run of run_scheduled_task up to its end: the steps and their order
\* are those of its description (load, dedupe, insert RUNNING, validate the
\* API keys, sandbox and chat, stream, completion); the validation step is
\* validate_user_api_keys.

\* validate_model_api_keys: the message of the APIKeyValidationError it
\* raises, or "ok".  provider.get("enabled", True) and
\* provider.get("provider_type", "custom") are read from the entry
validate_model_api_keys(p) ==
    IF ~p.found THEN "No provider configured for model"
    ELSE IF ~p.enabled THEN "Provider is disabled"
    ELSE IF p.provider_type # "custom" /\ ~p.auth_token THEN "API key is required for provider"
    ELSE IF p.provider_type = "custom" /\ ~p.base_url THEN "Base URL is required for custom provider"
    ELSE "ok"

\* a TaskExecution row
TaskExecution(id, task_id, executed_at, status, error_message) ==
    [id |-> id, task_id |-> task_id, executed_at |-> executed_at, status |-> status,
     error_message |-> error_message]

\* the id a new TaskExecution row gets
FreshExecutionId(rows) == Cardinality(rows) + 1

\* validate_user_api_keys: (user_settings, None) when the keys are valid;
\* else a new FAILED TaskExecution is added, the task is updated as after a
\* failed run, both are committed and the error is returned
validate_user_api_keys(rows, executions, task_id, start_time, p) ==
    LET e == validate_model_api_keys(p)
    IN  IF e = "ok"
        THEN [error |-> "none", tasks |-> rows, executions |-> executions]
        ELSE [error |-> e,
              tasks |-> [rows EXCEPT ![task_id] =
                            update_task_after_execution(@, start_time, FALSE, e)],
              executions |-> executions \cup
                  {TaskExecution(FreshExecutionId(executions), task_id, start_time,
                                 EXEC_FAILED, e)}]

nonRunVars == <<streamVars, schedVars, recVars, queueVars, beatVars, svcVars, pollVars, ttlVars, reqs, served>>

\* the tasks whose run is followed: the daily, the one-time, the weekly task
VRunIds == {1, 2, 3}

\* steps 1 and 2: the task and its owner load, start_time is now, the dedupe
\* check finds no execution
VRunStart(i) ==
    /\ UNCHANGED nonRunVars
    /\ vrun.pc = "idle"
    /\ texecs = {}
    /\ vrun' = [NoValidatedRun EXCEPT !.pc = "insert", !.task_id = i, !.start_time = tnow]
    /\ UNCHANGED <<tasks, tnow, texecs, made, provider>>

\* step 3: TaskExecution(status = RUNNING, executed_at = start_time)
VInsertRunning ==
    /\ UNCHANGED nonRunVars
    /\ vrun.pc = "insert"
    /\ texecs' = texecs \cup {TaskExecution(FreshExecutionId(texecs), vrun.task_id,
                                            vrun.start_time, RUNNING, "none")}
    /\ vrun' = [vrun EXCEPT !.pc = "validate", !.execution_id = FreshExecutionId(texecs)]
    /\ UNCHANGED <<tasks, tnow, made, provider>>

\* step 4: validate_user_api_keys; the run returns its error
VValidateKeys ==
    /\ UNCHANGED nonRunVars
    /\ vrun.pc = "validate"
    /\ LET out == validate_user_api_keys(tasks, texecs, vrun.task_id, vrun.start_time, provider)
       IN  /\ tasks' = out.tasks
           /\ texecs' = out.executions
           /\ vrun' = IF out.error = "none"
                      THEN [vrun EXCEPT !.pc = "sandbox"]
                      ELSE [vrun EXCEPT !.pc = "done", !.result = out.error]
    /\ UNCHANGED <<tnow, made, provider>>

\* step 5: the sandbox, the chat and its two messages
VCreateSandbox ==
    /\ UNCHANGED nonRunVars
    /\ vrun.pc = "sandbox"
    /\ made' = made \cup {"sandbox", "chat"}
    /\ vrun' = [vrun EXCEPT !.pc = "stream"]
    /\ UNCHANGED <<tasks, tnow, texecs, provider>>

\* step 6: the stream orchestrator runs
VStream ==
    /\ UNCHANGED nonRunVars
    /\ vrun.pc = "stream"
    /\ made' = made \cup {"stream"}
    /\ vrun' = [vrun EXCEPT !.pc = "complete"]
    /\ UNCHANGED <<tasks, tnow, texecs, provider>>

\* steps 7 and 8: complete_task_execution and update_task_after_execution
VComplete(success) ==
    /\ UNCHANGED nonRunVars
    /\ vrun.pc = "complete"
    /\ texecs' = complete_task_execution(texecs, vrun.execution_id,
                                         IF success THEN SUCCESS ELSE EXEC_FAILED)
    /\ tasks' = [tasks EXCEPT ![vrun.task_id] =
                    update_task_after_execution(@, vrun.start_time, success,
                                                IF success THEN "none" ELSE "boom")]
    /\ vrun' = [vrun EXCEPT !.pc = "done", !.result = IF success THEN "success" ELSE "boom"]
    /\ UNCHANGED <<tnow, made, provider>>

\* what get_provider_for_model may find
Providers ==
    {NoProvider} \cup
    {Provider(TRUE, en, ty, tok, url) :
        en \in BOOLEAN, ty \in {"anthropic", "openrouter", "custom"},
        tok \in BOOLEAN, url \in BOOLEAN}

\* the table when the runs are dispatched: check_due has advanced the due
\* tasks at 09:00:30
RunTable ==
    [i \in BeatIds |->
        LET row == BeatTable(FALSE)[i]
        IN  IF IsDue(row, datetime(2026, 3, 10, 9, 0, 30))
            THEN AfterDue(row, datetime(2026, 3, 10, 9, 0, 30))
            ELSE row]

VRunInit ==
    /\ StreamAtRest
    /\ SchedIdle
    /\ RecIdle
    /\ QueueIdle
    /\ BeatIdle
    /\ SvcIdle
    /\ reqs = [c \in Clients |-> IdleRequest("none")]
    /\ served = 0
    /\ tnow = datetime(2026, 3, 10, 9, 0, 31)
    /\ tasks = RunTable
    /\ vrun = NoValidatedRun
    /\ texecs = {}
    /\ made = {}
    /\ provider \in Providers
    /\ PollIdle
    /\ TtlIdle

VRunNext ==
    \/ \E i \in VRunIds : VRunStart(i)
    \/ VInsertRunning
    \/ VValidateKeys
    \/ VCreateSandbox
    \/ VStream
    \/ \E success \in BOOLEAN : VComplete(success)

\* one dispatched run of a scheduled task, for every provider configuration
SpecRun == VRunInit /\ [][VRunNext]_vars

\* ================================================== check_due, by statement
\* One poll of check_due_tasks at a time, statement by statement: the query,
\* the loop, the commit, the dispatches, the return.  The query and the
\* commit may fail; the loop raises on a task whose rule has no next fire.

nonPollVars == <<streamVars, schedVars, recVars, queueVars, beatVars, svcVars, runVars, ttlVars,
                 reqs, served>>

\* check_due_tasks: "except Exception": the session closes without a commit
\* and {"error": ...} is returned
check_due_except(p) == [p EXCEPT !.pc = "returned", !.result = "error"]

\* the loop of check_due_tasks where every db.add(task) reached the store
\* at once
RecomputeOutcome_CommitsEach(rows, p, now) ==
    LET after == [i \in DOMAIN rows |->
                     IF \E k \in DOMAIN p.selected : p.selected[k] = i
                     THEN AfterDue(rows[i], now) ELSE rows[i]]
        Bad(k) == after[p.selected[k]].next_execution = SchedulerException
        done == [i \in DOMAIN rows |->
                    IF \E k \in DOMAIN p.selected :
                          /\ p.selected[k] = i
                          /\ \A j \in 1..k : ~Bad(j)
                    THEN after[i] ELSE rows[i]]
    IN  IF \E k \in DOMAIN p.selected : Bad(k)
        THEN [tasks |-> done, poll |-> check_due_except(p)]
        ELSE [tasks |-> rows, poll |-> [p EXCEPT !.pc = "commit", !.pending = after]]

\* the loop of check_due_tasks over the selected tasks: the new
\* next_execution (or PENDING) of each is set on the objects of the session;
\* calculate_next_execution raising ends the poll
RecomputeOutcome(rows, p, now) ==
    LET after == [i \in DOMAIN rows |->
                     IF \E k \in DOMAIN p.selected : p.selected[k] = i
                     THEN AfterDue(rows[i], now) ELSE rows[i]]
        Bad(k) == after[p.selected[k]].next_execution = SchedulerException
    IN  IF \E k \in DOMAIN p.selected : Bad(k)
        THEN [tasks |-> rows, poll |-> check_due_except(p)]
        ELSE [tasks |-> rows, poll |-> [p EXCEPT !.pc = "commit", !.pending = after]]

\* now = datetime.now(); the query
PollSelect ==
    /\ UNCHANGED nonPollVars
    /\ poll.pc = "idle"
    /\ checks < MaxChecks
    /\ \E fails \in BOOLEAN :
          IF fails
          THEN poll' = check_due_except([NoPoll EXCEPT !.now = tnow, !.before = tasks])
          ELSE \E S \in LimitedSets(tasks, DueIds(tasks, tnow), DUE_BATCH_LIMIT) :
                  poll' = [NoPoll EXCEPT !.pc = "recompute", !.now = tnow, !.before = tasks,
                                         !.loaded = tasks,
                                         !.selected = OrderByNextExecution(tasks, S)]
    /\ UNCHANGED <<tasks, tnow>>

\* the loop
PollRecompute ==
    /\ UNCHANGED nonPollVars
    /\ poll.pc = "recompute"
    /\ LET out == RecomputeOutcome(tasks, poll, poll.now)
       IN  /\ tasks' = out.tasks
           /\ poll' = out.poll
    /\ UNCHANGED tnow

\* db.commit(): the UPDATEs of the selected tasks, or an error
PollCommit ==
    /\ UNCHANGED nonPollVars
    /\ poll.pc = "commit"
    /\ \E fails \in BOOLEAN :
          IF fails
          THEN /\ poll' = check_due_except(poll)
               /\ tasks' = tasks
          ELSE /\ poll' = [poll EXCEPT !.pc = "dispatch"]
               /\ tasks' = [i \in DOMAIN tasks |->
                               IF \E k \in DOMAIN poll.selected : poll.selected[k] = i
                               THEN Flush(tasks[i], poll.loaded[i], poll.pending[i])
                               ELSE tasks[i]]
    /\ UNCHANGED tnow

\* execute_task_trigger(str(task.id)) for the next selected task
PollDispatch ==
    /\ UNCHANGED nonPollVars
    /\ poll.pc = "dispatch"
    /\ Len(poll.dispatched) < Len(poll.selected)
    /\ poll' = [poll EXCEPT !.dispatched = Append(@, poll.selected[Len(@) + 1])]
    /\ UNCHANGED <<tasks, tnow>>

\* return {"tasks_triggered": len(tasks)}
PollReturn ==
    /\ UNCHANGED nonPollVars
    /\ poll.pc = "dispatch"
    /\ Len(poll.dispatched) = Len(poll.selected)
    /\ poll' = [poll EXCEPT !.pc = "returned", !.result = "ok"]
    /\ UNCHANGED <<tasks, tnow>>

\* the beat starts the next poll
PollAgain ==
    /\ UNCHANGED <<streamVars, schedVars, recVars, queueVars, svcVars, runVars, ttlVars, reqs, served>>
    /\ poll.pc = "returned"
    /\ checks < MaxChecks
    /\ checks' = checks + 1
    /\ poll' = NoPoll
    /\ UNCHANGED <<tasks, tnow, batch, triggered, drun>>

\* the table before the polls: that of the beat; with `bad` the user's
\* weekly task is due and has scheduled_day 31
PollTable(crowded, bad) ==
    [BeatTable(crowded) EXCEPT ![3] =
        IF bad
        THEN TaskRow(TRUE, ACTIVE, "none", datetime(2026, 3, 10, 9, 0, 0),
                     TaskRule(WEEKLY, <<9, 0, 30>>, 31))
        ELSE @]

PollInit ==
    /\ StreamAtRest
    /\ SchedIdle
    /\ RecIdle
    /\ QueueIdle
    /\ BeatIdle
    /\ SvcIdle
    /\ RunIdle
    /\ PollIdle
    /\ TtlIdle
    /\ reqs = [c \in Clients |-> IdleRequest("none")]
    /\ served = 0
    /\ tnow = datetime(2026, 3, 10, 9, 0, 0)
    /\ \E crowded \in BOOLEAN, bad \in BOOLEAN : tasks = PollTable(crowded, bad)

PollNext ==
    \/ PollSelect
    \/ PollRecompute
    \/ PollCommit
    \/ PollDispatch
    \/ PollReturn
    \/ PollAgain
    \/ BeatTick

\* polls of check_due_tasks, one after the other
SpecPoll == PollInit /\ [][PollNext]_vars

PollToggleNext == PollNext \/ UserToggle

\* polls of check_due_tasks while the user toggles their one-time task, each
\* on its own database session
SpecPollToggle == PollInit /\ [][PollToggleNext]_vars

\* ===================================================== queue edits, by command
\* add_message, update_message, append_to_message, remove_message and
\* pop_next_message of two clients on chat:{id}:queue, one Redis command an
\* action, with the TTL of the key.

\* the TTL add_message sets on the key, taken small so that the key expires
QUEUE_MESSAGE_TTL_SECONDS == 2

\* message_data of add_message, the JSON of an entry; content is the
\* sequence of the pieces of the string, attachments None as <<>>
message_data(id, content, model_id, permission_mode, queued_at, attachments) ==
    [id |-> id, content |-> content, model_id |-> model_id,
     permission_mode |-> permission_mode, queued_at |-> queued_at,
     attachments |-> attachments]

\* no entry at hand
NoEntry == message_data(0, <<>>, "none", "none", 0, <<>>)

\* the client that adds and edits, and the one that pops and removes
Editor == 1

Consumer == 2

\* the time, the model and the attachments of the n-th message added; <<>>
\* is None
QueuedAtOf(n) == 100 + n

ModelOf(n) == <<"opus", "haiku", "opus", "haiku", "opus", "haiku">>[n]

AttachmentsOf(n) == IF n % 2 = 1 THEN <<"a.png">> ELSE <<>>

\* the attachment lists append_to_message is given
AttachmentLists == {<<>>, <<"b.pdf">>}

\* the text update_message and append_to_message are given
EditText == "more"

\* the loop of update_message, append_to_message and remove_message over
\* raw_items: the index (from 1) of the first entry with the id, 0 for none
FirstWithId(raw_items, id) ==
    IF \E k \in DOMAIN raw_items : raw_items[k].id = id
    THEN CHOOSE k \in DOMAIN raw_items :
             /\ raw_items[k].id = id
             /\ \A j \in DOMAIN raw_items : raw_items[j].id = id => k <= j
    ELSE 0

\* update_message: data["content"] = content
update_data(data, content) == [data EXCEPT !.content = <<content>>]

\* append_to_message with the content replaced and the new attachments alone
append_data_Replaces(data, content, attachments) ==
    [data EXCEPT !.content = <<content>>,
                 !.attachments = IF attachments # <<>> THEN attachments ELSE @]

\* append_to_message: data["content"] + "\n" + content, and
\* (data.get("attachments") or []) + attachments when attachments are given
append_data(data, content, attachments) ==
    [data EXCEPT !.content = @ \o <<"\n", content>>,
                 !.attachments = IF attachments # <<>> THEN @ \o attachments ELSE @]

\* LSET key idx raw; Redis refuses an index outside the list and a missing key
LSetFails(q, idx) == idx \notin DOMAIN q

LSet(q, idx, raw) == [q EXCEPT ![idx] = raw]

\* a call of the queue service at rest or between two commands
EditCall(pc, op, idx, data, raw, result) ==
    [pc |-> pc, op |-> op, idx |-> idx, data |-> data, raw |-> raw,
     result |-> result]

EditReturn(c, op, idx, data, raw, result) ==
    qreqs' = [qreqs EXCEPT ![c] = EditCall("idle", op, idx, data, raw, result)]

\* Redis deletes a list that became empty, and its TTL with it
TtlAfter(q) == IF q = <<>> THEN NoExpiry ELSE queue_ttl

editRest == <<streamRest, messages, log, frames, recVars, taskVars, beatVars, svcVars,
              runVars, pollVars, execs, runs, dispatched, inj>>

\* add_message: LLEN, the test of the length, message_data
EditAddLlen(c) ==
    /\ UNCHANGED <<editRest, clock, queue, queue_ttl, edits, pushed>>
    /\ qreqs[c].pc = "idle"
    /\ pushed < MaxAdds
    /\ IF QueueIsFull(LLen(queue))
       THEN EditReturn(c, "add", 0, NoEntry, NoEntry, "full")
       ELSE qreqs' = [qreqs EXCEPT ![c] =
                EditCall("rpush", "add", LLen(queue),
                         message_data(pushed + 1, <<ContentOf(pushed + 1)>>,
                                      ModelOf(pushed + 1), "auto", QueuedAtOf(pushed + 1),
                                      AttachmentsOf(pushed + 1)),
                         NoEntry, "none")]

\* add_message: RPUSH
EditAddRpush(c) ==
    /\ UNCHANGED <<editRest, clock, queue_ttl, edits>>
    /\ qreqs[c].pc = "rpush"
    /\ pushed' = pushed + 1
    /\ queue' = RPush(queue, qreqs[c].data)
    /\ qreqs' = [qreqs EXCEPT ![c] = EditCall("expire", "add", qreqs[c].idx, qreqs[c].data,
                                              NoEntry, "none")]

\* add_message: EXPIRE; the call returns the id and the position
EditAddExpire(c) ==
    /\ UNCHANGED <<editRest, clock, queue, edits, pushed>>
    /\ qreqs[c].pc = "expire"
    /\ queue_ttl' = IF queue = <<>> THEN NoExpiry ELSE QUEUE_MESSAGE_TTL_SECONDS
    /\ EditReturn(c, "add", qreqs[c].idx, qreqs[c].data, NoEntry, "added")

\* update_message: LRANGE and the loop up to the LSET
EditUpdateLrange(c, id, content) ==
    /\ UNCHANGED <<editRest, clock, queue, queue_ttl, pushed>>
    /\ qreqs[c].pc = "idle"
    /\ edits < MaxEdits
    /\ edits' = edits + 1
    /\ LET idx == FirstWithId(queue, id)
       IN  IF idx = 0
           THEN EditReturn(c, "update", 0, NoEntry, NoEntry, "None")
           ELSE qreqs' = [qreqs EXCEPT ![c] =
                    EditCall("lset", "update", idx, update_data(queue[idx], content),
                             queue[idx], "none")]

\* append_to_message: LRANGE and the loop up to the LSET
EditAppendLrange(c, id, content, attachments) ==
    /\ UNCHANGED <<editRest, clock, queue, queue_ttl, pushed>>
    /\ qreqs[c].pc = "idle"
    /\ edits < MaxEdits
    /\ edits' = edits + 1
    /\ LET idx == FirstWithId(queue, id)
       IN  IF idx = 0
           THEN EditReturn(c, "append", 0, NoEntry, NoEntry, "None")
           ELSE qreqs' = [qreqs EXCEPT ![c] =
                    EditCall("lset", "append", idx,
                             append_data(queue[idx], content, attachments),
                             queue[idx], "none")]

\* update_message and append_to_message: LSET at the index found; the call
\* returns the QueuedMessage of data with position idx, or Redis' error
EditLset(c) ==
    /\ UNCHANGED <<editRest, clock, queue_ttl, edits, pushed>>
    /\ qreqs[c].pc = "lset"
    /\ IF LSetFails(queue, qreqs[c].idx)
       THEN /\ queue' = queue
            /\ EditReturn(c, qreqs[c].op, qreqs[c].idx, qreqs[c].data,
                          qreqs[c].raw, "raises")
       ELSE /\ queue' = LSet(queue, qreqs[c].idx, qreqs[c].data)
            /\ EditReturn(c, qreqs[c].op, qreqs[c].idx, qreqs[c].data,
                          qreqs[c].raw, "returned")

\* remove_message: LRANGE and the loop up to the LREM
EditRemoveLrange(c, id) ==
    /\ UNCHANGED <<editRest, clock, queue, queue_ttl, edits, pushed>>
    /\ qreqs[c].pc = "idle"
    /\ LET idx == FirstWithId(queue, id)
       IN  IF idx = 0
           THEN EditReturn(c, "remove", 0, NoEntry, NoEntry, "False")
           ELSE qreqs' = [qreqs EXCEPT ![c] =
                    EditCall("lrem", "remove", idx, queue[idx], queue[idx], "none")]

\* remove_message: LREM key 1 raw
EditRemoveLrem(c) ==
    /\ UNCHANGED <<editRest, clock, edits, pushed>>
    /\ qreqs[c].pc = "lrem"
    /\ queue' = LRem(queue, qreqs[c].data)
    /\ queue_ttl' = TtlAfter(queue')
    /\ EditReturn(c, "remove", qreqs[c].idx, qreqs[c].data, qreqs[c].raw, "True")

\* pop_next_message: LPOP
EditPop(c) ==
    /\ UNCHANGED <<editRest, clock, edits, pushed>>
    /\ qreqs[c].pc = "idle"
    /\ queue # <<>>
    /\ queue' = LPop(queue)
    /\ queue_ttl' = TtlAfter(queue')
    /\ EditReturn(c, "pop", 0, Head(queue), NoEntry, "popped")

\* a second passes; Redis deletes the key when its TTL is over
EditTick ==
    /\ UNCHANGED <<editRest, clock, qreqs, edits, pushed>>
    /\ queue_ttl # NoExpiry
    /\ IF queue_ttl = 1
       THEN queue' = <<>> /\ queue_ttl' = NoExpiry
       ELSE queue' = queue /\ queue_ttl' = queue_ttl - 1

EditInit ==
    /\ StreamAtRest
    /\ SchedIdle
    /\ RecIdle
    /\ TasksIdle
    /\ BeatIdle
    /\ SvcIdle
    /\ RunIdle
    /\ PollIdle
    /\ TtlIdle
    /\ qreqs = [c \in QClients |-> EditCall("idle", "none", 0, NoEntry, NoEntry, "none")]
    /\ inj = [i \in Injectors |-> [pc |-> "idle", msg |-> NoMessage, base |-> 0]]
    /\ pushed = 0

EditNext ==
    \/ EditAddLlen(Editor)
    \/ EditAddRpush(Editor)
    \/ EditAddExpire(Editor)
    \/ \E id \in 1..MaxAdds : EditUpdateLrange(Editor, id, EditText)
    \/ \E id \in 1..MaxAdds, a \in AttachmentLists : EditAppendLrange(Editor, id, EditText, a)
    \/ EditLset(Editor)
    \/ \E id \in 1..MaxAdds : EditRemoveLrange(Consumer, id)
    \/ EditRemoveLrem(Consumer)
    \/ EditPop(Consumer)
    \/ EditTick

\* the queue of one chat under concurrent edits, with its TTL
SpecEdit == EditInit /\ [][EditNext]_vars

\* ================================================ injection with failures
\* check_and_inject when a step after the pop raises: the exception leaves
\* check_and_inject, which has no handler, and the invitation is over

\* _create_queue_messages raises (a create_message of the MessageService fails)
InjCreateFails(i) ==
    /\ UNCHANGED <<nonQueueVars, streamRest, queue, messages, log, frames>>
    /\ inj[i].pc = "create"
    /\ InjReturn(i)
    /\ UNCHANGED <<qreqs, pushed>>

\* publisher.publish_queue_injected raises
InjPublishFails(i) ==
    /\ UNCHANGED <<nonQueueVars, streamRest, queue, messages, log, frames>>
    /\ inj[i].pc = "publish"
    /\ InjReturn(i)
    /\ UNCHANGED <<qreqs, pushed>>

\* queue_injected is published, then _get_current_session_id raises
InjSessionIdFails(i) ==
    /\ UNCHANGED <<nonQueueVars, streamRest, queue, messages, frames>>
    /\ inj[i].pc = "publish"
    /\ log' = XAdd(log, "queue_injected", inj[i].msg.content)
    /\ InjReturn(i)
    /\ UNCHANGED <<qreqs, pushed>>

\* transport.write raises
InjWriteFails(i) ==
    /\ UNCHANGED <<nonQueueVars, streamRest, queue, messages, log, frames>>
    /\ inj[i].pc = "write"
    /\ InjReturn(i)
    /\ UNCHANGED <<qreqs, pushed>>

InjectNext ==
    \/ \E c \in QClients : AddLlen(c)
    \/ \E c \in QClients : AddRpush(c)
    \/ \E i \in Injectors : InjHasMessages(i)
    \/ \E i \in Injectors : InjPop(i)
    \/ \E i \in Injectors : InjCreateMessages(i)
    \/ \E i \in Injectors : InjPublish(i)
    \/ \E i \in Injectors : InjWrite(i)
    \/ \E i \in Injectors : InjCreateFails(i)
    \/ \E i \in Injectors : InjPublishFails(i)
    \/ \E i \in Injectors : InjSessionIdFails(i)
    \/ \E i \in Injectors : InjWriteFails(i)

\* messages added and injected, with steps of the injection that may fail
SpecInject == QueueInit /\ [][InjectNext]_vars

\* ================================================================ claims
\* the assistant Message of the run
TheMessage == messages[AssistantMessageId]

\* process_stream has exited
Exited == mpc \in {"exited", "done"}

HasMessageId == assistant_message_id # NoMessageId

\* kinds of the log's entries, in order
TerminalKinds == {"complete", "error"}

HasEntry(kind) == \E i \in DOMAIN log : log[i].kind = kind

\* the last complete/error entry of the log has the given kind
LastTerminalIs(kind) ==
    \E i \in DOMAIN log :
        /\ log[i].kind = kind
        /\ \A j \in DOMAIN log : j > i => log[j].kind \notin TerminalKinds

\* C1: whenever process_stream has exited for a run with an assistant
\* message id, the assistant Message's stream_status is completed,
\* interrupted or failed, never in_progress.
C1_TerminalStatusOnExit ==
    (Exited /\ HasMessageId) => TheMessage.stream_status \in TerminalStatus

\* C2: if the watcher set was_cancelled before the loop exited, the run ends
\* INTERRUPTED: stream_status interrupted, content the JSON list of the
\* received events, terminal log entry complete and no error entry, and
\* StreamCancelled carrying that content raised.
C2_CancelFinalizesInterrupted ==
    (Exited /\ HasMessageId /\ was_cancelled) =>
        /\ TheMessage.stream_status = INTERRUPTED
        /\ TheMessage.content = JsonDumps(events)
        /\ LastTerminalIs("complete")
        /\ ~HasEntry("error")
        /\ outcome = "StreamCancelled"
        /\ final_content = JsonDumps(events)

\* C3: if the provider iterator raises an ordinary error after N >= 1
\* events, the assistant Message ends failed with content the JSON list of
\* those N events, an error entry is in the log, and the error is re-raised.
C3_FailureKeepsEvents ==
    (Exited /\ HasMessageId /\ provider_end = "error" /\ Len(events) >= 1) =>
        /\ TheMessage.stream_status = FAILED
        /\ TheMessage.content = JsonDumps(events)
        /\ LastTerminalIs("error")
        /\ outcome = "raised"
        /\ exc = "ProviderError"

C3_Witness ==
    /\ Exited /\ HasMessageId /\ provider_end = "error" /\ Len(events) = MaxEvents
    /\ TheMessage.stream_status = FAILED

\* C4: once the assistant Message holds a terminal stream_status, no step
\* changes it to another value.
C4_TerminalStatusWrittenOnce ==
    [][TheMessage.stream_status \in TerminalStatus =>
         TheMessage'.stream_status = TheMessage.stream_status]_vars

\* C5: no content entry follows a complete or error entry in the chat's log.
C5_NoContentAfterTerminal ==
    \A i, j \in DOMAIN log :
        (i < j /\ log[i].kind \in TerminalKinds) => log[j].kind # "content"

\* C6: cancel_active_stream() is invoked at most once in a run.
C6_CancelAtMostOnce == cancel_calls <= 1

\* the watcher made the call and the main loop then went through its own
\* cancellation branch and the post-loop check
C6_Witness ==
    /\ cancel_calls = 1
    /\ outcome = "StreamCancelled"
    /\ wpc = "finished"

\* C7: a provider stream that is exhausted without any event and without
\* cancellation is a failure: ClaudeAgentException is raised, the message
\* ends failed, the terminal log entry is error, no complete entry is
\* published and no checkpoint is requested.
C7_EmptyStreamFails ==
    (Exited /\ provider_end = "exhausted" /\ events = <<>> /\ ~was_cancelled) =>
        /\ exc = "ClaudeAgentException"
        /\ outcome = "raised"
        /\ HasMessageId => TheMessage.stream_status = FAILED
        /\ LastTerminalIs("error")
        /\ ~HasEntry("complete")
        /\ ~checkpoint_requested

C7_Witness ==
    /\ Exited /\ provider_end = "exhausted" /\ events = <<>> /\ ~was_cancelled
    /\ HasMessageId /\ TheMessage.stream_status = FAILED

\* C8: the chat has at most one assistant Message with stream_status
\* in_progress.
C8_OneInProgress ==
    Cardinality({i \in DOMAIN messages :
                    /\ messages[i].role = "assistant"
                    /\ messages[i].stream_status = IN_PROGRESS}) <= 1

\* C9: two executions of the task whose start times are less than 2 minutes
\* apart are never both RUNNING or SUCCESS: the later dispatch is rejected.
C9_DedupeWindow ==
    \A e1, e2 \in execs :
        (/\ e1.id # e2.id
         /\ e1.executed_at - e2.executed_at < DEDUPE_WINDOW_MINUTES
         /\ e2.executed_at - e1.executed_at < DEDUPE_WINDOW_MINUTES)
        => ~(e1.status \in {RUNNING, SUCCESS} /\ e2.status \in {RUNNING, SUCCESS})

\* C10: at every moment at most one TaskExecution of the task is RUNNING.
C10_AtMostOneRunning ==
    Cardinality({e \in execs : e.status = RUNNING}) <= 1

\* ---- claims about the recurrence calculator
\* the date d at the scheduled time of the call
AtTime(d, scheduled_time) ==
    datetime(d.year, d.month, d.day, scheduled_time[1], scheduled_time[2],
             IF Len(scheduled_time) >= 3 THEN scheduled_time[3] ELSE 0)

\* dt + timedelta(days=n)
PlusDays(dt, n) ==
    LET d == AddDays(DateOf(dt), n)
    IN  [dt EXCEPT !.year = d.year, !.month = d.month, !.day = d.day]

\* a value that is a datetime of the calendar
IsDatetime(dt) ==
    /\ dt.year >= 1
    /\ dt.month \in 1..12
    /\ dt.day \in 1..monthrange(dt.year, dt.month)

\* the rule of the call is one the claims speak about
ValidRule ==
    \/ rc_args.recurrence_type = ONCE /\ rc_args.allow_once
    \/ rc_args.recurrence_type = DAILY
    \/ rc_args.recurrence_type = WEEKLY /\ rc_args.scheduled_day \in 0..6
    \/ rc_args.recurrence_type = MONTHLY /\ rc_args.scheduled_day \in 1..31

\* C13: for every valid rule and every reference time, calculate_next_datetime
\* returns a datetime strictly later than the reference time.
C13_NextStrictlyLater ==
    (rc_called /\ ValidRule) =>
        /\ IsDatetime(rc_result)
        /\ DtLess(rc_args.from_time, rc_result)

\* a DAILY call whose reference time is exactly the scheduled time of day:
\* the result is the next day
C13_Witness ==
    /\ rc_called
    /\ rc_args.recurrence_type = DAILY
    /\ rc_args.from_time = AtTime(DateOf(rc_args.from_time), rc_args.scheduled_time)
    /\ rc_result = PlusDays(rc_args.from_time, 1)

\* the month after (year, month), as <<year, month>>
MonthAfter(ym) == IF ym[2] = 12 THEN <<ym[1] + 1, 1>> ELSE <<ym[1], ym[2] + 1>>

\* the fire time of a MONTHLY rule in the month ym
MonthlyAt(d, ym, scheduled_time) ==
    AtTime(Date(ym[1], ym[2], ClampDay(d, ym[1], ym[2])), scheduled_time)

\* C14: a MONTHLY result is the earliest clamped fire time strictly after
\* from_time; it lies in from_time's month or the next one, and day 30 or 31
\* rolling into February gives Feb 28, or Feb 29 in a leap year.
C14_MonthlyClamped ==
    (rc_called /\ rc_args.recurrence_type = MONTHLY /\ rc_args.scheduled_day \in 1..31) =>
        LET d == rc_args.scheduled_day
            m0 == <<rc_args.from_time.year, rc_args.from_time.month>>
            m1 == MonthAfter(m0)
            m2 == MonthAfter(m1)
            cands == {MonthlyAt(d, ym, rc_args.scheduled_time) : ym \in {m0, m1, m2}}
        IN  /\ rc_result \in cands
            /\ DtLess(rc_args.from_time, rc_result)
            /\ \A c \in cands : DtLess(rc_args.from_time, c) => DtLeq(rc_result, c)
            /\ <<rc_result.year, rc_result.month>> \in {m0, m1}
            /\ (d \in {30, 31} /\ rc_result.month = 2) =>
                   rc_result.day = IF IsLeap(rc_result.year) THEN 29 ELSE 28

\* day 31 at 10:00:00 from 2026-01-31T12:00:00Z gives 2026-02-28T10:00:00Z
C14_Witness ==
    /\ rc_called
    /\ rc_args.recurrence_type = MONTHLY
    /\ rc_args.scheduled_day = 31
    /\ rc_args.scheduled_time = <<10, 0, 0>>
    /\ rc_args.from_time = datetime(2026, 1, 31, 12, 0, 0)
    /\ rc_result = datetime(2026, 2, 28, 10, 0, 0)

\* C15: a WEEKLY result falls on weekday w at H:M:S within (from_time,
\* from_time + 7 days]; when from_time's weekday is w and that day's H:M:S is
\* not later than from_time, it is exactly 7 days after from_time's date.
C15_WeeklyRollover ==
    (rc_called /\ rc_args.recurrence_type = WEEKLY /\ rc_args.scheduled_day \in 0..6) =>
        LET today == DateOf(rc_args.from_time)
            test_dt == AtTime(today, rc_args.scheduled_time)
        IN  /\ IsDatetime(rc_result)
            /\ weekday(DateOf(rc_result)) = rc_args.scheduled_day
            /\ rc_result = AtTime(DateOf(rc_result), rc_args.scheduled_time)
            /\ DtLess(rc_args.from_time, rc_result)
            /\ DtLeq(rc_result, PlusDays(rc_args.from_time, 7))
            /\ (weekday(today) = rc_args.scheduled_day /\ DtLeq(test_dt, rc_args.from_time)) =>
                   rc_result = AtTime(AddDays(today, 7), rc_args.scheduled_time)

\* Wednesday 2026-01-07 at 12:00 with w = 2 and 10:00:00: the next Wednesday
C15_Witness ==
    /\ rc_called
    /\ rc_args.recurrence_type = WEEKLY
    /\ rc_args.scheduled_day = 2
    /\ rc_args.scheduled_time = <<10, 0, 0>>
    /\ rc_args.from_time = datetime(2026, 1, 7, 12, 0, 0)
    /\ weekday(DateOf(rc_args.from_time)) = 2
    /\ rc_result = datetime(2026, 1, 14, 10, 0, 0)

\* C16: DAILY, and ONCE with allow_once, give from_time's date at H:M:S when
\* that is strictly later than from_time and else the following date at
\* H:M:S, within (from_time, from_time + 24h]; ONCE without allow_once gives
\* none.
C16_DailyAndOnce ==
    rc_called =>
        LET today == DateOf(rc_args.from_time)
            today_dt == AtTime(today, rc_args.scheduled_time)
        IN  /\ (rc_args.recurrence_type = DAILY
                \/ (rc_args.recurrence_type = ONCE /\ rc_args.allow_once)) =>
                   /\ rc_result = IF DtLess(rc_args.from_time, today_dt)
                                  THEN today_dt
                                  ELSE AtTime(AddDays(today, 1), rc_args.scheduled_time)
                   /\ DtLess(rc_args.from_time, rc_result)
                   /\ DtLeq(rc_result, PlusDays(rc_args.from_time, 1))
            /\ (rc_args.recurrence_type = ONCE /\ ~rc_args.allow_once) => rc_result = None

\* ONCE with allow_once, "0:0", in the last second of 2026: the first
\* instant of 2027
C16_Witness ==
    /\ rc_called
    /\ rc_args.recurrence_type = ONCE
    /\ rc_args.allow_once
    /\ rc_args.scheduled_time = <<0, 0>>
    /\ rc_args.from_time = [datetime(2026, 12, 31, 23, 59, 59) EXCEPT !.microsecond = 500000]
    /\ rc_result = datetime(2027, 1, 1, 0, 0, 0)

\* ---- claims about the task service
\* C11: a user never has more than MAX_TASKS_PER_USER enabled tasks in status
\* ACTIVE or PENDING, also when two requests count before the other commits.
C11_TaskCap == EnabledCount(tasks, TheUser, 0) <= MAX_TASKS_PER_USER

\* C12: a create_task that counts MAX_TASKS_PER_USER enabled tasks, and an
\* enabling toggle_task or update_task that counts as many other enabled
\* tasks, raises and leaves every persisted task as it was.
C12_CapRejects ==
    [][\A c \in Clients :
          /\ (/\ reqs[c].pc = "idle"
              /\ reqs'[c] # reqs[c]
              /\ reqs'[c].op = "create"
              /\ EnabledCount(tasks, TheUser, 0) >= MAX_TASKS_PER_USER)
             => (reqs'[c].pc = "idle" /\ reqs'[c].result = "cap" /\ tasks' = tasks)
          /\ (/\ reqs[c].pc = "validate"
              /\ reqs'[c] # reqs[c]
              /\ EnabledCount(tasks, TheUser, reqs[c].task_id) >= MAX_TASKS_PER_USER)
             => (reqs'[c].pc = "idle" /\ reqs'[c].result = "cap" /\ tasks' = tasks)
      ]_vars

\* with ten tasks enabled, one client's create_task and the other's toggle of
\* a disabled task were both rejected
C12_Witness ==
    /\ reqs[1].result = "cap" /\ reqs[1].op = "create"
    /\ reqs[2].result = "cap" /\ reqs[2].op = "toggle"
    /\ ~tasks[reqs[2].task_id].enabled
    /\ tasks[reqs[2].task_id].last_error = "boom"
    /\ EnabledCount(tasks, TheUser, reqs[2].task_id) = MAX_TASKS_PER_USER

\* ---- claims about the queue service and the injector
\* C17: the queue of a chat never holds more than MAX_QUEUE_SIZE messages,
\* under any interleaving of add_message, pop_next_message and
\* remove_message.
C17_QueueBounded == Len(queue) <= MAX_QUEUE_SIZE

\* C18: an add_message that finds MAX_QUEUE_SIZE messages fails with the
\* queue-full error and leaves the queue as it is; one that finds fewer
\* goes on and appends its message at the tail.
C18_FullQueueRejects ==
    [][\A c \in QClients :
          /\ (/\ qreqs[c].pc = "idle"
              /\ qreqs'[c] # qreqs[c]
              /\ qreqs'[c].op = "add"
              /\ Len(queue) >= MAX_QUEUE_SIZE)
             => (qreqs'[c].pc = "idle" /\ qreqs'[c].result = "full" /\ queue' = queue)
          /\ (/\ qreqs[c].pc = "idle"
              /\ qreqs'[c] # qreqs[c]
              /\ qreqs'[c].op = "add"
              /\ Len(queue) < MAX_QUEUE_SIZE)
             => (qreqs'[c].pc = "rpush" /\ queue' = queue)
          /\ (qreqs[c].pc = "rpush" /\ qreqs'[c] # qreqs[c])
             => /\ qreqs'[c].result = "added"
                /\ Len(queue') = Len(queue) + 1
                /\ SubSeq(queue', 1, Len(queue)) = queue
                /\ queue'[Len(queue')].id = pushed'
      ]_vars

\* client 1 was refused on a full queue; after a pop client 2 added the
\* next message, which is at the tail of the again full queue
C18_Witness ==
    /\ qreqs[1].result = "full"
    /\ qreqs[2].result = "added"
    /\ pushed = MAX_QUEUE_SIZE + 1
    /\ Len(queue) = MAX_QUEUE_SIZE
    /\ queue[Len(queue)].id = pushed
    /\ frames = <<>>

\* the invitation holds a message it popped
InFlight(i) == inj[i].pc \in {"create", "publish", "write"}

\* the number, in the order of the RPUSHes, of the message with a content
AddedAs(content) == CHOOSE n \in 1..6 : ContentOf(n) = content

\* no message is injected twice, held by two invitations, or injected and
\* still queued; an invitation's message was added after every message
\* injected before the invitation began; when every added message has been
\* injected the queue is empty
C19_State ==
    /\ \A a, b \in DOMAIN frames : a # b => frames[a] # frames[b]
    /\ \A k \in DOMAIN queue : \A a \in DOMAIN frames : queue[k].content # frames[a]
    /\ \A i \in Injectors : InFlight(i) =>
          /\ \A k \in DOMAIN queue : queue[k] # inj[i].msg
          /\ \A a \in DOMAIN frames : frames[a] # inj[i].msg.content
          /\ \A j \in Injectors : (j # i /\ InFlight(j)) => inj[j].msg # inj[i].msg
          /\ \A a \in 1..inj[i].base : AddedAs(frames[a]) < inj[i].msg.id
    /\ (pushed > 0 /\ Len(frames) = pushed) => queue = <<>>

\* a step of an invitation removes at most the head of the queue, at its
\* pop, and writes at most one frame, that of the message it popped
C19_Step ==
    /\ \A i \in Injectors :
          /\ (inj[i].pc = "pop" /\ inj'[i].pc = "create") =>
                 (inj'[i].msg = Head(queue) /\ queue' = Tail(queue))
          /\ (InFlight(i) /\ inj'[i] # inj[i]) => queue' = queue
    /\ frames' # frames =>
          \E i \in Injectors : /\ inj[i].pc = "write"
                               /\ inj'[i].pc = "idle"
                               /\ frames' = Append(frames, inj[i].msg.content)

\* C19: each invitation of the injector removes at most the head of the queue
\* and writes at most one frame; successive invitations inject in the order
\* of adding, no message twice even with concurrent invitations, and the
\* queue is empty once every queued message was injected.
C19_InjectHeadOnce == []C19_State /\ [][C19_Step]_vars

\* two messages were queued and two invitations injected them in the order
\* they were added; the queue is empty
C19_Witness ==
    /\ pushed = 2
    /\ frames = <<ContentOf(1), ContentOf(2)>>
    /\ queue = <<>>
    /\ \A i \in Injectors : inj[i].pc = "idle"

\* ---- claim about the boundary of an injection
\* the log entry of a published top-level tool_completed event
ToolCompletedEntry == Entry("content", "tool_completed")

C20_State ==
    /\ invite_pending =>
          /\ mpc = "anext"
          /\ events # <<>>
          /\ events[Len(events)] = "tool_completed"
    /\ \A i \in DOMAIN log :
          log[i].kind = "queue_injected" =>
              \E j \in 1..(i - 1) :
                  /\ log[j] = ToolCompletedEntry
                  /\ \A k \in (j + 1)..(i - 1) : log[k] = Entry("content", SystemEvent)

\* the invitation arises at the publish of a top-level tool_completed and at
\* no other step; the publish of any other event leaves none; a
\* queue_injected entry uses the invitation up
C20_Step ==
    /\ (~invite_pending /\ invite_pending') =>
          /\ mpc = "publish"
          /\ events[Len(events)] = "tool_completed"
          /\ log' = Append(log, ToolCompletedEntry)
    /\ (mpc = "publish" /\ mpc' = "anext") =>
          (invite_pending' <=> events[Len(events)] = "tool_completed")
    /\ (Len(log') > Len(log) /\ log'[Len(log')].kind = "queue_injected") =>
          (invite_pending /\ ~invite_pending')

ServedNow(op) == ncalls' # ncalls /\ call'.op = op

\* the rows the step changed
ChangedRows == {i \in DOMAIN tasks : tasks'[i] # tasks[i]}

\* a weekly rule has its day in 0..6 and a monthly rule in 1..31
DayInRange(recurrence_type, scheduled_day) ==
    /\ recurrence_type = WEEKLY => scheduled_day \in 0..6
    /\ recurrence_type = MONTHLY => scheduled_day \in 1..31

\* C25: a create_task succeeds exactly when the caller is below the cap and
\* the rule is valid; it then persists exactly one new task of the caller,
\* ACTIVE and enabled, whose next_execution is the next fire after now with
\* ONCE allowed: a datetime strictly later than now for every recurrence
\* type; a create_task that fails persists nothing.
C25_CreatePersistsOne ==
    [][ServedNow("create") =>
          LET u == call'.user_id
              d == call'.data
              next_fire == calculate_next_datetime(d.recurrence_type, d.scheduled_time,
                                                   d.scheduled_day, tnow, TRUE)
          IN  /\ call'.result = "ok" <=>
                    /\ EnabledCount(tasks, u, 0) < MAX_TASKS_PER_USER
                    /\ DayInRange(d.recurrence_type, d.scheduled_day)
              /\ call'.result = "ok" =>
                    \E i \in DOMAIN tasks :
                        /\ ChangedRows = {i}
                        /\ ~RowExists(tasks[i])
                        /\ tasks'[i].user_id = u
                        /\ tasks'[i].status = ACTIVE
                        /\ tasks'[i].enabled
                        /\ RuleOf(tasks'[i]) =
                               TaskRule(d.recurrence_type, d.scheduled_time, d.scheduled_day)
                        /\ tasks'[i].next_execution = next_fire
                        /\ IsDatetime(next_fire)
                        /\ DtLess(tnow, next_fire)
              /\ call'.result # "ok" =>
                    (tasks' = tasks /\ call'.result \in {"cap", "invalid"})
      ]_vars

\* a one-time task created at 09:30 for 09:00 is stored, active, for the
\* next day at 09:00
C25_Witness ==
    /\ call.op = "create"
    /\ call.result = "ok"
    /\ call.data.recurrence_type = ONCE
    /\ tnow = datetime(2026, 3, 10, 9, 30, 0)
    /\ \E i \in DOMAIN tasks :
          /\ tasks[i].recurrence_type = ONCE
          /\ tasks[i].status = ACTIVE
          /\ tasks[i].next_execution = datetime(2026, 3, 11, 9, 0, 0)

\* the request named a task of the caller
OwnTask == /\ call'.task_id \in DOMAIN tasks
           /\ RowExists(tasks[call'.task_id])
           /\ tasks[call'.task_id].user_id = call'.user_id

\* the request sets a scheduling field
SetsSchedule(d) ==
    d.recurrence_type # Unset \/ d.scheduled_time # UnsetTime \/ d.scheduled_day # UnsetDay

\* the rule of a task after the fields of the request are set
RuleAfter(row, d) ==
    TaskRule(IF d.recurrence_type = Unset THEN row.recurrence_type ELSE d.recurrence_type,
             IF d.scheduled_time = UnsetTime THEN row.scheduled_time ELSE d.scheduled_time,
             IF d.scheduled_day = UnsetDay THEN row.scheduled_day ELSE d.scheduled_day)

\* the next fire of a rule after `at`, a one-time rule allowed
NextFire(rule, at) ==
    calculate_next_datetime(rule.recurrence_type, rule.scheduled_time, rule.scheduled_day,
                            at, TRUE)

\* the history of a task
History(row) ==
    <<row.execution_count, row.failure_count, row.last_execution>>

\* C26: update_task with enabled = true on a disabled task succeeds exactly
\* when the rule is valid and the caller has fewer than 10 other enabled
\* tasks; it then sets enabled and ACTIVE, clears last_error, and gives
\* next_execution a new value exactly when it was null or the update sets
\* recurrence_type, scheduled_time or scheduled_day; otherwise the stored
\* next_execution stays.  A refused update changes nothing.
C26_EnableByUpdate ==
    [][(/\ ServedNow("update")
        /\ call'.data.enabled = "true"
        /\ OwnTask
        /\ ~tasks[call'.task_id].enabled) =>
          LET id == call'.task_id
              d == call'.data
              row == tasks[id]
              rule == RuleAfter(row, d)
          IN  /\ call'.result = "ok" <=>
                    /\ DayInRange(rule.recurrence_type, rule.scheduled_day)
                    /\ EnabledCount(tasks, call'.user_id, id) < MAX_TASKS_PER_USER
              /\ call'.result = "ok" =>
                    /\ ChangedRows \subseteq {id}
                    /\ tasks'[id].enabled
                    /\ tasks'[id].status = ACTIVE
                    /\ tasks'[id].last_error = "none"
                    /\ RuleOf(tasks'[id]) = rule
                    /\ History(tasks'[id]) = History(row)
                    /\ tasks'[id].next_execution =
                          IF row.next_execution = None \/ SetsSchedule(d)
                          THEN NextFire(rule, tnow)
                          ELSE row.next_execution
              /\ call'.result # "ok" => tasks' = tasks
      ]_vars

\* the paused weekly task was enabled by an update that sets only enabled:
\* it is active, its last_error is cleared, its next_execution is the
\* stored one
C26_Witness ==
    /\ call = Call("update", TheUser, 3, TaskData(Unset, UnsetTime, UnsetDay, "true"), "ok")
    /\ tasks[3].enabled
    /\ tasks[3].status = ACTIVE
    /\ tasks[3].last_error = "none"
    /\ tasks[3].next_execution = datetime(2026, 3, 3, 9, 0, 30)

C28_ToggleFlips ==
    [][(ServedNow("toggle") /\ call'.result = "ok") =>
          LET id == call'.task_id
          IN  /\ OwnTask
              /\ ChangedRows \subseteq {id}
              /\ tasks'[id].enabled = ~tasks[id].enabled
              /\ tasks'[id].status = IF tasks[id].enabled THEN PAUSED ELSE ACTIVE
              /\ ~tasks[id].enabled =>
                    /\ tasks'[id].next_execution = NextFire(RuleOf(tasks[id]), tnow)
                    /\ IsDatetime(tasks'[id].next_execution)
                    /\ DtLess(tnow, tasks'[id].next_execution)
      ]_vars

\* the paused weekly task, whose stored next_execution was long past, was
\* toggled twice: it is paused again, with the next_execution the enabling
\* toggle computed
C28_Witness ==
    /\ ncalls = 2
    /\ call = Call("toggle", TheUser, 3, NoData, "ok")
    /\ ~tasks[3].enabled
    /\ tasks[3].status = PAUSED
    /\ tasks[3].next_execution = datetime(2026, 3, 17, 9, 0, 30)

\* C29: get_task, update_task, delete_task, toggle_task and
\* get_execution_history for a task the caller does not own end as for a
\* missing task, "not found", and change no task and no TaskExecution row.
C29_NotOwnerNotFound ==
    [][(/\ ncalls' # ncalls
        /\ call'.op \in {"get_task", "update", "delete", "toggle", "get_execution_history"}
        /\ ~OwnTask) =>
          /\ call'.result = "not_found"
          /\ tasks' = tasks
          /\ execs' = execs
      ]_vars

\* the other user asked to delete the user's daily task: not found, the
\* task is as it was
C29_Witness ==
    /\ call = Call("delete", OtherUser, 1, NoData, "not_found")
    /\ ncalls = 1
    /\ tasks[1] = SvcTable(TRUE)[1]

\* ---- claims about the scheduler beat and the runs
\* the step is a check_due that committed
CheckedNow == checks' # checks

\* the tasks the check_due of this step selected
Selected == {batch'[p] : p \in DOMAIN batch'}

\* the tasks that are due now: enabled, ACTIVE, next_execution not null
\* and not later than now
DueNow(rows) ==
    {i \in DOMAIN rows : /\ rows[i].enabled
                         /\ rows[i].status = ACTIVE
                         /\ rows[i].next_execution # None
                         /\ ~DtLess(tnow, rows[i].next_execution)}

\* C21: check_due selects due tasks only, all of them up to the limit of
\* the query and the earliest first, in ascending next_execution; after its
\* commit a selected recurring task has a next_execution later than now, a
\* selected one-time task has none and is PENDING, so that none of them is
\* due any more; every other field and every other task is unchanged.
C21_CheckDueSelectsDue ==
    [][CheckedNow =>
          /\ Selected \subseteq DueNow(tasks)
          /\ Len(batch') = Cardinality(Selected)
          /\ Len(batch') = IF Cardinality(DueNow(tasks)) <= DUE_BATCH_LIMIT
                           THEN Cardinality(DueNow(tasks)) ELSE DUE_BATCH_LIMIT
          /\ \A p, q \in DOMAIN batch' :
                p < q => DtLeq(tasks[batch'[p]].next_execution,
                               tasks[batch'[q]].next_execution)
          /\ \A i \in Selected : \A j \in DueNow(tasks) \ Selected :
                DtLeq(tasks[i].next_execution, tasks[j].next_execution)
          /\ \A i \in Selected :
                /\ IF tasks[i].recurrence_type = ONCE
                   THEN tasks'[i] = [tasks[i] EXCEPT !.next_execution = None,
                                                      !.status = PENDING]
                   ELSE /\ IsDatetime(tasks'[i].next_execution)
                        /\ DtLess(tnow, tasks'[i].next_execution)
                        /\ tasks'[i] = [tasks[i] EXCEPT
                                           !.next_execution = tasks'[i].next_execution]
                /\ i \notin DueNow(tasks')
          /\ \A i \in DOMAIN tasks \ Selected : tasks'[i] = tasks[i]
      ]_vars

\* the daily 09:00:00 task due at 2026-03-10T09:00:00Z was selected at that
\* instant in a batch cut by the limit and has its next_execution a day
\* later; the one-time task due at the same instant was left for the next
\* check_due, unchanged
C21_Witness ==
    /\ tnow = datetime(2026, 3, 10, 9, 0, 0)
    /\ checks = 1
    /\ Len(batch) = DUE_BATCH_LIMIT
    /\ \E p \in DOMAIN batch : batch[p] = 1
    /\ tasks[1].next_execution = datetime(2026, 3, 11, 9, 0, 0)
    /\ tasks[1].status = ACTIVE
    /\ tasks[2] = BeatTable(TRUE)[2]

\* the step ends a run
RunEnded(success) ==
    /\ drun.pc = "running"
    /\ drun'.pc = "idle"
    /\ drun'.success = success

\* the next fire of the rule of a task after `at`, a one-time rule not
\* allowed
NextFireNoOnce(row, at) ==
    calculate_next_datetime(row.recurrence_type, row.scheduled_time, row.scheduled_day,
                            at, FALSE)

\* C22: after a successful execution execution_count is one more,
\* last_execution is the start_time of the run, last_error is none,
\* failure_count is as before and next_execution is the next fire after
\* start_time; when there is none (ONCE) the task is disabled, COMPLETED
\* and without next_execution.
C22_SuccessUpdatesTask ==
    [][RunEnded(TRUE) =>
          LET id == drun.task_id
              row == tasks[id]
              next_fire == NextFireNoOnce(row, drun.start_time)
              counted == [row EXCEPT !.execution_count = row.execution_count + 1,
                                     !.last_execution = drun.start_time,
                                     !.last_error = "none"]
          IN  /\ ChangedRows \subseteq {id}
              /\ tasks'[id].failure_count = row.failure_count
              /\ IF next_fire = None
                 THEN /\ row.recurrence_type = ONCE
                      /\ tasks'[id] = [counted EXCEPT !.enabled = FALSE,
                                                      !.status = TASK_COMPLETED,
                                                      !.next_execution = None]
                 ELSE /\ IsDatetime(next_fire)
                      /\ tasks'[id] = [counted EXCEPT !.next_execution = next_fire]
      ]_vars

\* the daily task ran with success after a failed run the day before: one
\* execution, one failure, last_error cleared, next_execution a day after
\* the start of the run
C22_Witness ==
    /\ drun = [pc |-> "idle", task_id |-> 1,
               start_time |-> datetime(2026, 3, 11, 9, 0, 0), success |-> TRUE]
    /\ tasks[1].execution_count = 1
    /\ tasks[1].failure_count = 1
    /\ tasks[1].last_error = "none"
    /\ tasks[1].last_execution = datetime(2026, 3, 11, 9, 0, 0)
    /\ tasks[1].next_execution = datetime(2026, 3, 12, 9, 0, 0)

\* C23: after a failed execution of a task of any recurrence type
\* failure_count is one more, last_error is the error message,
\* execution_count and last_execution are as before, and the task stays on
\* its schedule: enabled and status are as before and next_execution is a
\* datetime.
C23_FailureKeepsSchedule ==
    [][RunEnded(FALSE) =>
          LET id == drun.task_id
              row == tasks[id]
          IN  /\ tasks'[id].failure_count = row.failure_count + 1
              /\ tasks'[id].last_error = "boom"
              /\ tasks'[id].execution_count = row.execution_count
              /\ tasks'[id].last_execution = row.last_execution
              /\ tasks'[id].enabled = row.enabled
              /\ tasks'[id].status = row.status
              /\ IsDatetime(tasks'[id].next_execution)
      ]_vars

\* the one-time task cannot be selected by check_due
OutOfSchedule(row) == row.status # ACTIVE \/ row.next_execution = None \/ ~row.enabled

\* C24: check_due selects a one-time task only when it is ACTIVE with a
\* next_execution and leaves it PENDING without one; from then on no
\* check_due selects it, and only a request of the user puts it back on the
\* schedule; the success of its execution takes it from PENDING to
\* COMPLETED, disabled.
C24_OnceFiresOnce ==
    [][\A i \in FollowedIds : tasks[i].recurrence_type = ONCE =>
          /\ (CheckedNow /\ i \in Selected) =>
                /\ ~OutOfSchedule(tasks[i])
                /\ tasks'[i].status = PENDING
                /\ tasks'[i].next_execution = None
                /\ triggered'[i] = triggered[i] + 1
          /\ (CheckedNow /\ i \notin Selected) => triggered'[i] = triggered[i]
          /\ ~CheckedNow => triggered'[i] <= triggered[i]
          /\ (OutOfSchedule(tasks[i]) /\ ~OutOfSchedule(tasks'[i])) =>
                (ncalls' # ncalls /\ call'.task_id = i /\ call'.user_id = tasks[i].user_id)
          /\ (RunEnded(TRUE) /\ drun.task_id = i /\ tasks[i].status = PENDING) =>
                (tasks'[i].status = TASK_COMPLETED /\ ~tasks'[i].enabled)
      ]_vars

\* the one-time task was dispatched by the first check_due, not by the
\* second, ran once with success and is COMPLETED and disabled; the user
\* made no request
C24_Witness ==
    /\ checks = 2
    /\ ncalls = 0
    /\ tasks[2].status = TASK_COMPLETED
    /\ ~tasks[2].enabled
    /\ tasks[2].next_execution = None
    /\ tasks[2].execution_count = 1
    /\ triggered[2] = 0
    /\ drun.pc = "idle"

\* C30: in every persisted state every WEEKLY task has its scheduled_day in
\* 0..6 and every MONTHLY task in 1..31, whatever create_task and
\* update_task requests were served
C30_DayInRange ==
    \A i \in DOMAIN tasks :
        RowExists(tasks[i]) => DayInRange(tasks[i].recurrence_type, tasks[i].scheduled_day)

\* served one after the other, create_task and update_task keep every
\* WEEKLY and MONTHLY task in range and refuse a violating body without a
\* change
C30_SerialDayInRange ==
    /\ C30_DayInRange
    /\ [][(ServedNow("create") \/ ServedNow("update")) /\ call'.result = "invalid"
             => tasks' = tasks]_vars

\* the run ended with an error of the key validation
KeysRefused == vrun.pc = "done" /\ vrun.result \notin {"success", "boom"}

\* what validate_user_api_keys does committed: a FAILED TaskExecution of the
\* run with the message, one more failure, last_error, the next fire after
\* start_time; nothing was created
FailureRecorded ==
    /\ \E e \in texecs : /\ e.task_id = vrun.task_id
                         /\ e.executed_at = vrun.start_time
                         /\ e.status = EXEC_FAILED
                         /\ e.error_message = vrun.result
    /\ tasks[vrun.task_id].failure_count = RunTable[vrun.task_id].failure_count + 1
    /\ tasks[vrun.task_id].last_error = vrun.result
    /\ tasks[vrun.task_id].next_execution =
          calculate_next_execution(RunTable[vrun.task_id], vrun.start_time)
    /\ made = {}

\* C31: when the validation of the model's API keys fails in a scheduled
\* run, a FAILED TaskExecution with the error message is recorded, the
\* task's failure_count grows by one and its next_execution is recomputed,
\* no sandbox, chat or stream is created, and no TaskExecution of the run
\* is left RUNNING
C31_KeyFailureRecorded ==
    KeysRefused =>
        /\ FailureRecorded
        /\ \A e \in texecs : e.executed_at = vrun.start_time => e.status # RUNNING

\* the validation fails in the four cases and only in them, and what
\* validate_user_api_keys records is as claimed
C31_FailureRecordedOnly ==
    /\ KeysRefused => FailureRecorded
    /\ vrun.pc \in {"sandbox", "stream", "complete"} \/ (vrun.pc = "done" /\ ~KeysRefused)
          <=> /\ vrun.pc \notin {"idle", "insert", "validate"}
              /\ provider.found /\ provider.enabled
              /\ provider.provider_type \in {"anthropic", "openrouter"} => provider.auth_token
              /\ provider.provider_type = "custom" => provider.base_url

\* C32: when a stream starts, a revoked flag left over from before the start
\* is cleared before the monitor task polls for the first time
C32_StaleRevokedCleared == [][mpc = "prepare" /\ mpc' # "prepare" => ~revoked']_vars

\* a flag set before the start cancels the new stream before any event
C32_StaleFlagCancels == ~(was_cancelled /\ events = <<>> /\ log = <<>>)

\* the main loop was left by a CancelledError the monitor task did not cause
InterruptedUnflagged == mpc \in {"exited", "done"} /\ outcome = "CancelledError" /\ ~was_cancelled

\* C33: a main loop interrupted while was_cancelled is false ends as a
\* failure: the message is failed, the log has an error entry, and the
\* stream is finalized neither as INTERRUPTED nor as COMPLETED
C33_InterruptIsFailure ==
    InterruptedUnflagged /\ assistant_message_id = AssistantMessageId =>
        /\ messages[AssistantMessageId].stream_status = FAILED
        /\ \E k \in DOMAIN log : log[k].kind = "error"
        /\ fin_status \notin {INTERRUPTED, COMPLETED}

\* such an interrupt is finalized neither as INTERRUPTED nor as COMPLETED,
\* and as nothing else: no terminal entry, the message stays in progress
C33_InterruptNotFinalized ==
    InterruptedUnflagged /\ assistant_message_id = AssistantMessageId =>
        /\ fin_status = "none"
        /\ messages[AssistantMessageId].stream_status = IN_PROGRESS
        /\ \A k \in DOMAIN log : log[k].kind \notin {"error", "complete"}

\* the step that deletes the keys of the run
KeysDeletedNow == mpc # "done" /\ mpc' = "done"

\* once the run has ended neither its task key nor its revoked key remains
C34_KeysDeleted == mpc = "done" => ~task_key /\ ~revoked

\* C34: on every exit path of the run the task and the revoked key are
\* deleted, and only after the terminal state of the assistant message has
\* been written; once the run has ended none of its keys remains
C34_KeysDeletedAfterTerminal ==
    /\ [](mpc = "done" => ~task_key /\ ~revoked)
    /\ [][KeysDeletedNow /\ HasMessageId =>
             /\ ~task_key' /\ ~revoked'
             /\ TheMessage.stream_status \in TerminalStatus]_vars

\* the poll hands a task id to the execution queue in this step
DispatchedNow == Len(poll'.dispatched) > Len(poll.dispatched)

\* the id handed over
LastDispatched == poll'.dispatched[Len(poll'.dispatched)]

\* the stored task is past the fire the poll selected it for: it is PENDING
\* without a next_execution, or its next_execution is later than the now
\* of the poll
Advanced(row) ==
    \/ row.status = PENDING /\ row.next_execution = None
    \/ row.next_execution # None /\ DtLess(poll.now, row.next_execution)

\* C35: check_due hands a task id to the execution queue only after the
\* commit that advanced the task's next_execution (or marked it PENDING);
\* when the query, the recomputation of a selected task or the commit
\* fails, the poll dispatches no task, persists nothing and returns an
\* error result
C35_DispatchAfterCommit ==
    /\ [](poll.result = "error" => poll.dispatched = <<>> /\ tasks = poll.before)
    /\ [](poll.pc \in {"recompute", "commit"} => poll.dispatched = <<>> /\ tasks = poll.before)
    /\ [][DispatchedNow => /\ Advanced(tasks[LastDispatched])
                           /\ tasks[LastDispatched] # poll.before[LastDispatched]
                           /\ tasks' = tasks]_vars
    /\ [][poll.pc = "recompute" /\ poll' # poll /\ (\E k \in DOMAIN poll.selected :
              tasks[poll.selected[k]].scheduled_day = 31
              /\ tasks[poll.selected[k]].recurrence_type = WEEKLY)
            => poll'.result = "error"]_vars

\* a poll whose loop raised on its second task has returned an error
C35_Witness ==
    /\ poll.pc = "returned"
    /\ poll.result = "error"
    /\ Len(poll.selected) >= 2
    /\ tasks[poll.selected[Len(poll.selected)]].scheduled_day = 31
    /\ tasks = poll.before

\* the call of client c leaves its LSET step
LsetDone(c) == qreqs[c].pc = "lset" /\ qreqs'[c].pc = "idle"

\* C36: update_message and append_to_message change only the entry whose id
\* is the one given: the length of the queue, its order and every other
\* entry stay as they were, and when no entry has the id the call returns
\* None and changes nothing -- also when a pop_next_message or a
\* remove_message of another client comes between the LRANGE and the LSET
C36_OnlyMatchingEntryEdited ==
    [][\A c \in QClients :
          /\ LsetDone(c) =>
                /\ Len(queue') = Len(queue)
                /\ \A k \in DOMAIN queue :
                      queue'[k] # queue[k] => queue[k].id = qreqs[c].data.id
          /\ (/\ edits' # edits
              /\ qreqs'[c].op \in {"update", "append"}
              /\ qreqs'[c].result = "None") => queue' = queue]_vars

\* update_message and append_to_message change only the entry with the id
\* given when that entry is still at the index at which LRANGE showed it
C36_InPlaceOnlyMatchingEntryEdited ==
    [][\A c \in QClients :
          (/\ LsetDone(c)
           /\ ~LSetFails(queue, qreqs[c].idx)
           /\ queue[qreqs[c].idx] = qreqs[c].raw) =>
                /\ Len(queue') = Len(queue)
                /\ \A k \in DOMAIN queue :
                      queue'[k] # queue[k] => queue[k].id = qreqs[c].data.id]_vars

C39_WriteResetsTtl ==
    [][\A c \in QClients :
          (/\ qreqs[c].pc # "idle"
           /\ qreqs'[c].pc = "idle"
           /\ qreqs'[c].result \in {"added", "returned"}
           /\ queue' # <<>>) => queue_ttl' = QUEUE_MESSAGE_TTL_SECONDS]_vars

\* add_message sets the TTL of the key it wrote to
C39_AddResetsTtl ==
    [][\A c \in QClients :
          (/\ qreqs[c].pc # "idle"
           /\ qreqs'[c].pc = "idle"
           /\ qreqs'[c].result = "added"
           /\ queue' # <<>>) => queue_ttl' = QUEUE_MESSAGE_TTL_SECONDS]_vars

\* message n is in the queue, in the hands of an invitation of the injector,
\* or its frame has been written to the transport
Kept(n) ==
    \/ \E k \in DOMAIN queue : queue[k].id = n
    \/ \E i \in Injectors : inj[i].msg.id = n
    \/ \E a \in DOMAIN frames : frames[a] = ContentOf(n)

\* C38: a message popped by check_and_inject is never lost: its frame is
\* written to the transport or it is still in the queue, also when creating
\* the DB messages, publishing queue_injected, reading the session id or the
\* write to the transport fails after the LPOP
C38_PoppedNeverLost == \A n \in 1..pushed : Kept(n)

\* enabled and status of a task agree, and an enabled ACTIVE task is scheduled
EnabledMatchesStatus(row) ==
    /\ row.enabled <=> row.status \in {ACTIVE, PENDING}
    /\ (row.enabled /\ row.status = ACTIVE) => row.next_execution # None

\* C40: after any sequence of create_task, update_task, toggle_task,
\* check_due and update_task_after_execution -- the user may disable or
\* re-enable a task while one of its executions is running -- enabled is true
\* exactly when the status is ACTIVE or PENDING, and every enabled ACTIVE task
\* has a next_execution
C40_EnabledMatchesStatus ==
    \A i \in DOMAIN tasks : RowExists(tasks[i]) => EnabledMatchesStatus(tasks[i])

====
